---- MODULE Spec2Model ----
(***************************************************************************)
(* Trim resolution pipeline of trim_manager_backend:                       *)
(*   app/matching.py            match_trim, _norm, _clip01,                *)
(*                              _canonical_method                          *)
(*   app/llm_classification.py  llm_assign, _rate_limit, _extract_json     *)
(*                                                                         *)
(* Text is a sequence of one-character strings.  Time is counted in ticks  *)
(* of 1/52 s, the unit in which both 1/RATE_LIMIT_QPS = 1/1.3 s (40 ticks) *)
(* and BACKOFF_BASE = 0.75 s (39 ticks) are whole numbers.  Confidences    *)
(* and fuzzy scores are counted in hundredths (1.0 = 100).                 *)
(***************************************************************************)
EXTENDS Integers, Sequences, FiniteSets, TLC

(***************************************************************************)
(* Program constants                                                       *)
(***************************************************************************)
\* llm_classification.py:15
MAX_RETRIES == 4
\* llm_classification.py:16, 0.75 s in ticks
BACKOFF_BASE == 39
\* llm_classification.py:25, min_interval = 1.0 / 1.3 s in ticks
MIN_INTERVAL == 40
\* llm_classification.py:14, 30 s in ticks
REQUEST_TIMEOUT == 1560
\* matching.py:131
fuzzy_primary_threshold == 82
\* matching.py:132
fuzzy_secondary_threshold == 74
\* matching.py:133 and llm_classification.py:86, 0.55 in hundredths
min_ai_confidence == 55
\* matching.py:214
DESC_LIMIT == 300

(***************************************************************************)
(* Text                                                                    *)
(***************************************************************************)
\* Python's None where a string is optional.
None == <<"<None>">>

UpperChars == <<"A","B","C","D","E","F","G","H","I","J","K","L","M",
                "N","O","P","Q","R","S","T","U","V","W","X","Y","Z">>

LowerChars == <<"a","b","c","d","e","f","g","h","i","j","k","l","m",
                "n","o","p","q","r","s","t","u","v","w","x","y","z">>

Digits == {"0","1","2","3","4","5","6","7","8","9"}

Whitespace == {" ", "\t", "\n"}

\* str.lower() on one character
LowerChar(c) ==
    IF \E i \in 1..26 : UpperChars[i] = c
    THEN LowerChars[CHOOSE i \in 1..26 : UpperChars[i] = c]
    ELSE c

Lower(s) == [i \in 1..Len(s) |-> LowerChar(s[i])]

\* the class [a-z0-9]
IsAlnum(c) == (\E i \in 1..26 : LowerChars[i] = c) \/ c \in Digits

\* a character of the output and whether it is kept
Mark(c, keep) == [c |-> c, keep |-> keep]

Kept(m) == m.keep

\* the characters of the kept marks, in order
Unmark(ms) ==
    LET k == SelectSeq(ms, Kept) IN [i \in 1..Len(k) |-> k[i].c]

\* re.sub(r"[^a-z0-9]+", " ", s): every maximal run of characters outside
\* [a-z0-9] becomes one space (the run's first character is kept as the
\* space, the others are dropped)
SubNonAlnum(s) ==
    Unmark([i \in 1..Len(s) |->
              IF IsAlnum(s[i]) THEN Mark(s[i], TRUE)
              ELSE Mark(" ", i = 1 \/ IsAlnum(s[i - 1]))])

\* re.sub(r"\s+", " ", s): every maximal run of whitespace becomes one space
SubWhitespace(s) ==
    Unmark([i \in 1..Len(s) |->
              IF s[i] \notin Whitespace THEN Mark(s[i], TRUE)
              ELSE Mark(" ", i = 1 \/ s[i - 1] \notin Whitespace)])

\* str.lstrip()
LStrip(s) ==
    IF \A i \in 1..Len(s) : s[i] \in Whitespace THEN <<>>
    ELSE SubSeq(s, CHOOSE i \in 1..Len(s) :
                      /\ s[i] \notin Whitespace
                      /\ \A j \in 1..(i - 1) : s[j] \in Whitespace,
                Len(s))

\* str.rstrip()
RStrip(s) ==
    IF \A i \in 1..Len(s) : s[i] \in Whitespace THEN <<>>
    ELSE SubSeq(s, 1, CHOOSE i \in 1..Len(s) :
                         /\ s[i] \notin Whitespace
                         /\ \A j \in (i + 1)..Len(s) : s[j] \in Whitespace)

\* str.strip()
Strip(s) == RStrip(LStrip(s))

\* Python truthiness of an optional string
Truthy(s) == s # None /\ s # <<>>

\* A _norm that leaves the ends unstripped.
NormUnstripped(s) ==
    IF ~Truthy(s) THEN <<>>
    ELSE SubWhitespace(SubNonAlnum(Lower(s)))

\* A _norm that does not lower the case.
NormKeepsCase(s) ==
    IF ~Truthy(s) THEN <<>>
    ELSE Strip(SubWhitespace(SubNonAlnum(s)))

\* llm_classification.py:67-74  the copy of _norm in llm_classification
LlmNorm(s) ==
    IF ~Truthy(s) THEN <<>>
    ELSE Strip(SubWhitespace(SubNonAlnum(Lower(s))))

\* matching.py:23-29  _norm
Norm(s) ==
    IF ~Truthy(s) THEN <<>>
    ELSE Strip(SubWhitespace(SubNonAlnum(Lower(s))))

\* "sub in s" for strings
Contains(sub, s) ==
    \E i \in 0..(Len(s) - Len(sub)) : SubSeq(s, i + 1, i + Len(sub)) = sub

\* A confidence as found in a classifier answer: a number (in hundredths)
\* or a value float() rejects.
NumConf(v) == [num |-> TRUE, nan |-> FALSE, v |-> v]

BadConf == [num |-> FALSE, nan |-> FALSE, v |-> 0]

\* the NaN that json.loads reads from the literal NaN: float() accepts it
NanConf == [num |-> TRUE, nan |-> TRUE, v |-> 0]

\* A _clip01 that does not clip.
Clip01Unclipped(x) == IF ~x.num THEN 0 ELSE x.v

\* _clip01: max(0.0, min(1.0, float(x))), 0.0 when float(x) raises; min
\* keeps 1.0 against NaN, which compares false with everything
Clip01(x) ==
    IF ~x.num THEN 0
    ELSE IF x.nan THEN 100
    ELSE IF x.v < 0 THEN 0
    ELSE IF x.v > 100 THEN 100
    ELSE x.v

\* The canonical assignment methods
M_EXACT == <<"e","x","a","c","t">>

M_MANUAL == <<"m","a","n","u","a","l">>

M_LLM == <<"L","L","M">>

M_FUZZY == <<"f","u","z","z","y">>

M_UNMATCHED == <<"u","n","m","a","t","c","h","e","d">>

Methods == {M_EXACT, M_MANUAL, M_LLM, M_FUZZY, M_UNMATCHED}

\* A _canonical_method that looks for llm and ai before manual.
CanonicalMethodLlmFirst(name) ==
    IF ~Truthy(name) THEN M_UNMATCHED
    ELSE LET n == Lower(Strip(name)) IN
         IF n = <<"e","x","a","c","t">> THEN M_EXACT
         ELSE IF Contains(<<"l","l","m">>, n) \/ Contains(<<"a","i">>, n)
              THEN M_LLM
         ELSE IF Contains(<<"m","a","n","u","a","l">>, n) THEN M_MANUAL
         ELSE IF n = <<"u","n","m","a","t","c","h","e","d">>
                 \/ n = <<"n","u","l","l">>
              THEN M_UNMATCHED
         ELSE M_FUZZY

\* _canonical_method
CanonicalMethod(name) ==
    IF ~Truthy(name) THEN M_UNMATCHED
    ELSE LET n == Lower(Strip(name)) IN
         IF n = <<"e","x","a","c","t">> THEN M_EXACT
         ELSE IF Contains(<<"m","a","n","u","a","l">>, n) THEN M_MANUAL
         ELSE IF Contains(<<"l","l","m">>, n) \/ Contains(<<"a","i">>, n)
              THEN M_LLM
         ELSE IF Contains(<<"f","u","z","z","y">>, n) THEN M_FUZZY
         ELSE IF \/ Contains(<<"r","u","l","e">>, n)
                 \/ Contains(<<"m","a","p","p","i","n","g">>, n)
                 \/ Contains(<<"h","e","u","r","i","s","t","i","c">>, n)
                 \/ Contains(<<"c","a","n","o","n","i","c","a","l">>, n)
                 \/ Contains(<<"c","l","o","s","e","s","t">>, n)
                 \/ Contains(<<"s","t","r","i","n","g">>, n)
              THEN M_FUZZY
         ELSE IF n = <<"u","n","m","a","t","c","h","e","d">>
                 \/ n = <<"n","u","l","l">>
              THEN M_UNMATCHED
         ELSE M_FUZZY

\* A result dictionary {trim, confidence, assignment_method}
Result(t, c, m) == [trim |-> t, confidence |-> c, method |-> m]

(***************************************************************************)
(* Candidate maps                                                          *)
(***************************************************************************)
\* A candidate list that keeps its empty entries.
CandListUnfiltered(cs) == cs

\* matching.py:148  cand_list = [c for c in (candidate_trims or []) if c]
CandList(cs) == SelectSeq(cs, Truthy)

\* matching.py:152-158  normalized_candidates: the distinct non-empty keys
\* of cand_list in first-seen order
RECURSIVE NormalizedCandidates(_)
NormalizedCandidates(cl) ==
    IF cl = <<>> THEN <<>>
    ELSE LET front == NormalizedCandidates(SubSeq(cl, 1, Len(cl) - 1))
             n == Norm(cl[Len(cl)])
         IN IF n # <<>> /\ ~(\E i \in 1..Len(front) : front[i] = n)
            THEN Append(front, n) ELSE front

\* the keys of norm_to_original
NormKeys(cl) ==
    {NormalizedCandidates(cl)[i] : i \in 1..Len(NormalizedCandidates(cl))}

\* A norm_to_original that gives the key back, not the display string.
NormToOriginalKey(cl, n) == n

\* matching.py:152-158  norm_to_original[n]: the first candidate with key n
NormToOriginal(cl, n) ==
    cl[CHOOSE i \in 1..Len(cl) :
          /\ Norm(cl[i]) = n
          /\ \A j \in 1..(i - 1) : Norm(cl[j]) # n]

\* llm_classification.py:153-154  norm_keys of {_norm(t): t for t in
\* candidate_trims if t}: the empty key is kept
LlmNormKeys(cl) == {Norm(cl[i]) : i \in {j \in 1..Len(cl) : Truthy(cl[j])}}

\* llm_classification.py:153  norm_map[n]: a later candidate overwrites an
\* earlier one with the same key
LlmNormMap(cl, n) ==
    cl[CHOOSE i \in 1..Len(cl) :
          /\ Truthy(cl[i]) /\ Norm(cl[i]) = n
          /\ \A j \in (i + 1)..Len(cl) : ~(Truthy(cl[j]) /\ Norm(cl[j]) = n)]

(***************************************************************************)
(* The remote classifier's reply                                           *)
(***************************************************************************)
\* A JSON value found in the reply text.  type "object" is an object with
\* the fields trim (None: missing or null) and confidence (a missing one is
\* the default 0.0 of parsed.get("confidence", 0.0)); "emptyobj" is {};
\* "list" a non-empty array of numbers, "emptylist" [], "null" null.
JObj(t, c) == [type |-> "object", trim |-> t, conf |-> c]

JOther(ty) == [type |-> ty, trim |-> None, conf |-> NumConf(0)]

\* Python's None as the result of _extract_json
JNone == JOther("None")

\* The reply text: "bare" is the JSON value alone, "fenced" the value
\* between ``` fences, "prose" the value inside prose with no other brace,
\* "garbage" text holding no JSON, "empty" the empty string.
Text(form, val) == [form |-> form, val |-> val]

\* a chunk that startswith("{") and endswith("}")
LooksLikeObject(v) == v.type \in {"object", "emptyobj"}

\* _extract_json
ExtractJson(text) ==
    IF text.form = "empty" THEN JNone
    ELSE IF text.form = "fenced" /\ LooksLikeObject(text.val) THEN text.val
    ELSE IF text.form \in {"fenced", "prose", "bare"} /\ LooksLikeObject(text.val)
         THEN text.val
    ELSE IF text.form = "bare" THEN text.val
    ELSE JNone

\* Python truthiness of a parsed value ("if not parsed")
ParsedTruthy(v) == v.type \in {"object", "list"}

\* A response of one requests.post call.
\*   net:    "ok" (an HTTP response arrived), "timeout" (requests.Timeout),
\*           "conn" (requests.ConnectionError), "other" (another
\*           RequestException, such as TooManyRedirects)
\*   status: the HTTP status
\*   env:    what resp.json() gives: "notjson" (it raises ValueError),
\*           "nondict" (a JSON array), "nochoices" (an object without
\*           "choices"), "emptychoices" ("choices": []), "content" (the
\*           message content is text)
Resp(net, status, env, text) ==
    [net |-> net, status |-> status, env |-> env, text |-> text]

NoText == Text("empty", JNone)

NoResp == Resp("none", 0, "none", NoText)

\* The exception one attempt raises inside the try block
\* (llm_classification.py:160-178), "none" when it raises none.
AttemptException(r) ==
    IF r.net = "timeout" THEN "Timeout"
    ELSE IF r.net = "conn" THEN "ConnectionError"
    ELSE IF r.net = "other" THEN "RequestException"
    ELSE IF r.status >= 500 THEN "HTTPError"
    ELSE IF r.status >= 400 THEN "HTTPError"
    ELSE IF r.env = "notjson" THEN "ValueError"
    ELSE IF r.env = "nondict" THEN "AttributeError"
    ELSE IF r.env = "emptychoices" THEN "IndexError"
    ELSE LET content == IF r.env = "nochoices" THEN NoText ELSE r.text
             parsed == ExtractJson(content)
         IN IF ~ParsedTruthy(parsed) THEN "ValueError"
            ELSE IF parsed.type # "object" THEN "AttributeError"
            ELSE "none"

\* llm_classification.py:195  the exceptions the retry handler catches
Retried(exc) == exc \in {"Timeout", "ConnectionError", "HTTPError", "ValueError"}

\* A backoff that grows linearly.
SleepSLinear(attempt) == BACKOFF_BASE * attempt

\* A backoff that triples.
SleepSTriple(attempt) == BACKOFF_BASE * (3 ^ (attempt - 1))

\* llm_classification.py:197  sleep_s = BACKOFF_BASE * (2 ** (attempt - 1))
SleepS(attempt) == BACKOFF_BASE * (2 ^ (attempt - 1))

\* A validation that forgets the confidence threshold.
ValidateNoThreshold(parsed, cl) ==
    LET raw_trim_out == IF Truthy(parsed.trim) THEN parsed.trim ELSE <<>>
        chosen_norm == Norm(raw_trim_out)
    IN IF raw_trim_out # <<>> /\ chosen_norm \in LlmNormKeys(cl)
       THEN Result(LlmNormMap(cl, chosen_norm), Clip01(parsed.conf), M_LLM)
       ELSE Result(<<>>, 0, M_UNMATCHED)

\* llm_classification.py:177-193  the dictionary returned for a parsed object
Validate(parsed, cl) ==
    LET raw_trim_out == IF Truthy(parsed.trim) THEN parsed.trim ELSE <<>>
        conf_out == Clip01(parsed.conf)
        chosen_norm == Norm(raw_trim_out)
    IN IF raw_trim_out # <<>>
          /\ chosen_norm \in LlmNormKeys(cl)
          /\ conf_out >= min_ai_confidence
       THEN Result(LlmNormMap(cl, chosen_norm), conf_out, M_LLM)
       ELSE Result(<<>>, 0, M_UNMATCHED)

\* How long a request takes: a timeout after REQUEST_TIMEOUT, a refused
\* connection at once, an HTTP response after the round trip.
Duration(r, rtt) ==
    IF r.net = "timeout" THEN REQUEST_TIMEOUT
    ELSE IF r.net \in {"conn", "other"} THEN 0
    ELSE rtt

(***************************************************************************)
(* Fuzzy matching.  The scorers (rapidfuzz token_set_ratio, partial_ratio) *)
(* are library code: a scorer is any assignment of a score to each         *)
(* normalized candidate.                                                   *)
(***************************************************************************)
Scores == {73, 74, 81, 82}

\* the scores of the run that follows the whole pipeline: one below and one
\* at or above both thresholds
CoarseScores == {73, 82}

\* the score tables a scorer with the given range can produce for n
\* candidates; a scorer that is not called (its query is empty) has nothing
\* to choose
ScoreTables(scores, called, n) ==
    IF called THEN [1..n -> scores] ELSE {[i \in 1..n |-> 0]}

\* one call of _best_by_scorer that reaches process.extractOne
Call(tier, scorer_name, query, table) ==
    [tier |-> tier, scorer |-> scorer_name, query |-> query, table |-> table]

Pair(v, sc) == [val |-> v, score |-> sc]

\* matching.py:192-198  _best_by_scorer: process.extractOne keeps the first
\* candidate with the highest score
BestByScorer(query, sc, candidates) ==
    IF query = <<>> THEN Pair(None, 0)
    ELSE IF candidates = <<>> THEN Pair(None, 0)
    ELSE LET i == CHOOSE i \in 1..Len(candidates) :
                     /\ \A j \in 1..Len(candidates) : sc[j] <= sc[i]
                     /\ \A j \in 1..(i - 1) : sc[j] < sc[i]
         IN Pair(candidates[i], sc[i])

\* A Tier 1 that accepts only above its threshold.
FuzzyTier1Strict(raw_trim_norm, sc, nc, cl) ==
    LET best == BestByScorer(raw_trim_norm, sc, nc)
    IN IF Truthy(best.val) /\ best.score > fuzzy_primary_threshold
       THEN Result(NormToOriginal(cl, best.val),
                   Clip01(NumConf(best.score)), M_FUZZY)
       ELSE Result(None, 0, M_UNMATCHED)

\* matching.py:200-207  fuzzy on the trim alone; unmatched stands for
\* "not accepted"
FuzzyTier1(raw_trim_norm, sc, nc, cl) ==
    LET best == BestByScorer(raw_trim_norm, sc, nc)
    IN IF Truthy(best.val) /\ best.score >= fuzzy_primary_threshold
       THEN Result(NormToOriginal(cl, best.val),
                   Clip01(NumConf(best.score)), M_FUZZY)
       ELSE Result(None, 0, M_UNMATCHED)

\* matching.py:193-195, 201  the call of process.extractOne Tier 1 makes
Tier1Calls(raw_trim_norm, sc) ==
    IF raw_trim_norm = <<>> THEN <<>>
    ELSE <<Call(1, "token_set_ratio", raw_trim_norm, sc)>>

\* " ".join(parts).strip() for two normalized parts
JoinNonEmpty(a, b) ==
    IF a = <<>> THEN b
    ELSE IF b = <<>> THEN a
    ELSE a \o <<" ">> \o b

\* matching.py:211-218  the combined query
Combined(li) == Strip(JoinNonEmpty(Norm(li.trim), Norm(li.title)))

\* A description that is used whole.
DescNormWhole(li) == Norm(li.description)

\* matching.py:212-215
DescNorm(li) ==
    LET d == Norm(li.description)
    IN IF Len(d) > DESC_LIMIT THEN SubSeq(d, 1, DESC_LIMIT) ELSE d

\* matching.py:237  combo2 = (combined + " " + desc_norm).strip()
Combo2(combined, desc_norm) == Strip(combined \o <<" ">> \o desc_norm)

\* A Tier 2 that scores the combined query with token_set_ratio only.
AltCandidatesTokenSetOnly(combined, desc_norm, sa, sb, nc) ==
    LET p1 == BestByScorer(combined, sa, nc)
        first == IF combined # <<>> /\ Truthy(p1.val) THEN <<p1>> ELSE <<>>
        p3 == BestByScorer(Combo2(combined, desc_norm), sa, nc)
    IN IF first = <<>> /\ (combined # <<>> \/ desc_norm # <<>>)
       THEN (IF Truthy(p3.val) THEN <<p3>> ELSE <<>>)
       ELSE first

\* matching.py:222-239  alt_candidates with alt_scores, for the queries
\* combined and desc_norm over the normalized candidates nc; sa scores the
\* token_set queries, sb the partial_ratio query
AltCandidates(combined, desc_norm, sa, sb, nc) ==
    LET p1 == BestByScorer(combined, sa, nc)
        p2 == BestByScorer(combined, sb, nc)
        first == IF combined # <<>>
                 THEN (IF Truthy(p1.val) THEN <<p1>> ELSE <<>>)
                      \o (IF Truthy(p2.val) THEN <<p2>> ELSE <<>>)
                 ELSE <<>>
        p3 == BestByScorer(Combo2(combined, desc_norm), sa, nc)
    IN IF first = <<>> /\ (combined # <<>> \/ desc_norm # <<>>)
       THEN (IF Truthy(p3.val) THEN <<p3>> ELSE <<>>)
       ELSE first

\* matching.py:225-239  the calls of process.extractOne Tier 2 makes
Tier2Calls(combined, desc_norm, sa, sb, nc) ==
    LET p1 == BestByScorer(combined, sa, nc)
        p2 == BestByScorer(combined, sb, nc)
        first == IF combined # <<>>
                 THEN <<Call(2, "token_set_ratio", combined, sa),
                        Call(2, "partial_ratio", combined, sb)>>
                 ELSE <<>>
        found == combined # <<>> /\ (Truthy(p1.val) \/ Truthy(p2.val))
        combo2 == Combo2(combined, desc_norm)
    IN IF ~found /\ (combined # <<>> \/ desc_norm # <<>>) /\ combo2 # <<>>
       THEN first \o <<Call(2, "token_set_ratio", combo2, sa)>>
       ELSE first

\* matching.py:241-250  the best alternative, the first one on a tie
FuzzyTier2(combined, desc_norm, sa, sb, nc, cl) ==
    LET alt == AltCandidates(combined, desc_norm, sa, sb, nc)
    IN IF alt = <<>> THEN Result(None, 0, M_UNMATCHED)
       ELSE LET idx == CHOOSE i \in 1..Len(alt) :
                          /\ \A j \in 1..Len(alt) : alt[j].score <= alt[i].score
                          /\ \A j \in 1..(i - 1) : alt[j].score < alt[i].score
            IN IF alt[idx].score >= fuzzy_secondary_threshold
               THEN Result(NormToOriginal(cl, alt[idx].val),
                           Clip01(NumConf(alt[idx].score)), M_FUZZY)
               ELSE Result(None, 0, M_UNMATCHED)

\* An exact stage that returns the normalized key.
ExactStageReturnsKey(raw_trim_norm, cl) ==
    IF raw_trim_norm # <<>> /\ raw_trim_norm \in NormKeys(cl)
    THEN Result(raw_trim_norm, 100, M_EXACT)
    ELSE Result(None, 0, M_UNMATCHED)

\* matching.py:163-168  the exact stage; unmatched stands for "not accepted"
ExactStage(raw_trim_norm, cl) ==
    IF raw_trim_norm # <<>> /\ raw_trim_norm \in NormKeys(cl)
    THEN Result(NormToOriginal(cl, raw_trim_norm), 100, M_EXACT)
    ELSE Result(None, 0, M_UNMATCHED)

\* The order of match_trim's docstring: the fuzzy stages before the LLM.
AfterExactAsDocstring(allow_external_llm) == "fuzzy1"

\* A match_trim that calls llm_assign whatever allow_external_llm is.
AfterExactAlwaysLlm(allow_external_llm) == "llm_start"

\* matching.py:170  where match_trim goes after the exact stage
AfterExact(allow_external_llm) ==
    IF allow_external_llm THEN "llm_start" ELSE "fuzzy1"

\* A match_trim without the try/except around llm_assign.
AfterLlmRaiseUncaught(called) == "raised"

\* matching.py:171, 187-188  where an exception leaving llm_assign goes:
\* match_trim catches it and goes on, a direct caller gets it
AfterLlmRaise(called) == IF called = "match_trim" THEN "fuzzy1" ELSE "raised"

\* matching.py:173-181  whether match_trim accepts llm_assign's dictionary
LlmAccepts(ai_guess, cl) ==
    LET ai_trim == IF Truthy(ai_guess.trim) THEN ai_guess.trim ELSE <<>>
        ai_conf == Clip01(NumConf(ai_guess.confidence))
    IN /\ ai_trim # <<>>
       /\ Norm(ai_trim) \in NormKeys(cl)
       /\ ai_conf >= min_ai_confidence

\* A classifier stage that reports every accepted answer as certain.
LlmStageFullConfidence(ai_guess, cl) ==
    Result(NormToOriginal(cl, Norm(ai_guess.trim)), 100,
           CanonicalMethod(ai_guess.method))

\* matching.py:182-186  the result of an accepted classifier answer
LlmStage(ai_guess, cl) ==
    Result(NormToOriginal(cl, Norm(ai_guess.trim)),
           Clip01(NumConf(ai_guess.confidence)),
           CanonicalMethod(ai_guess.method))

(***************************************************************************)
(* Inputs                                                                  *)
(***************************************************************************)
\* the most callers (threads of the one process) running at once
NumCallers == 3

\* how many calls are made one after another
NumCalls == 2

\* the round trip of a request that is answered, in ticks
RTT == 13

Callers == 1..NumCallers

\* what time.monotonic() reads when the first call starts, in ticks
StartTime == 100

Listing(trim, title, description) ==
    [trim |-> trim, title |-> title, description |-> description]

Listings ==
    { Listing(<<"s","e">>, None, None),
      Listing(<<"S","E"," ","X">>, <<"T">>, None),
      Listing(None, None, <<"D">>),
      Listing(<<"-">>, None, None) }

CandLists ==
    { <<>>,
      << <<>> >>,
      << <<"S","E">>, <<"L","E">> >>,
      << <<"S","e","-","X">>, <<"s","e"," ","x">> >>,
      << <<"-","-">>, <<"S","E">> >> }

\* a description whose normalized form is one character over the limit
LongDescription == [i \in 1..(DESC_LIMIT + 1) |-> IF i > DESC_LIMIT THEN "e" ELSE "d"]

\* the listings of the run of the fuzzy tiers: each of raw trim, title and
\* description present or missing
FuzzyListings ==
    { Listing(<<"s","x">>, None, None),
      Listing(None, <<"T">>, None),
      Listing(None, None, LongDescription),
      Listing(None, None, None),
      Listing(<<"s","x">>, <<"T">>, <<"D">>) }

\* its candidate sets: two keys, no key, two display forms of one key, one key
FuzzyCandLists ==
    { << <<"S","E">>, <<"L","E">> >>,
      << <<"-","-">> >>,
      << <<"S","e","-","X">>, <<"s","e"," ","x">>, <<"L","E">> >>,
      << <<"L","E">> >> }

\* the words _canonical_method looks for, and one it does not know
Keywords ==
    { <<"e","x","a","c","t">>, <<"m","a","n","u","a","l">>, <<"l","l","m">>,
      <<"a","i">>, <<"f","u","z","z","y">>, <<"r","u","l","e">>,
      <<"h","e","u","r","i","s","t","i","c">>, <<"m","a","p","p","i","n","g">>,
      <<"c","l","o","s","e","s","t">>, <<"c","a","n","o","n","i","c","a","l">>,
      <<"s","t","r","i","n","g">>, <<"u","n","m","a","t","c","h","e","d">>,
      <<"n","u","l","l">>, <<"z","z">> }

\* the labels given to _canonical_method: missing, empty, blank, one word,
\* two words, and spellings with capitals and blanks around
Labels ==
    { None, <<>>, <<" ">>, <<" ","E","x","a","c","t"," ">>,
      <<"M","a","n","u","a","l">>, <<"L","L","M">>, <<"A","I">>,
      <<"F","U","Z","Z","Y","\n">> }
    \cup Keywords
    \cup { a \o <<"-">> \o b : a \in Keywords, b \in Keywords }

\* what the classifier may name as the trim
\* the answers of the classifier: a trim (None: missing) and a confidence
JObjects ==
    { JObj(<<"s","e">>, c) :
        c \in {NumConf(-10), NumConf(54), NumConf(55), NumConf(150), BadConf,
               NanConf} }
    \cup { JObj(t, NumConf(80)) :
             t \in {None, <<>>, <<"S","E","_","X">>, <<"U">>, <<"!">>} }
    \cup { JObj(<<"U">>, NumConf(150)) }

SampleObj == JObj(<<"s","e">>, NumConf(80))

Texts ==
    { Text("bare", v) : v \in JObjects }
    \cup { Text("bare", JOther(ty)) : ty \in {"emptyobj", "list", "null"} }
    \cup { Text(f, v) : f \in {"fenced", "prose"},
                        v \in {SampleObj, JOther("list")} }
    \cup { Text("empty", JNone), Text("garbage", JNone) }

\* every response the remote service and the network can produce
Responses ==
    { Resp(n, 0, "none", NoText) : n \in {"timeout", "conn", "other"} }
    \cup { Resp("ok", st, "none", NoText) : st \in {404, 503} }
    \cup { Resp("ok", 200, e, NoText) :
             e \in {"notjson", "nondict", "nochoices", "emptychoices"} }
    \cup { Resp("ok", 200, "content", t) : t \in Texts }

\* the run with several callers: the service answers every request
Answers == { Resp("ok", 200, "content", Text("bare", SampleObj)) }

(***************************************************************************)
(* State                                                                   *)
(***************************************************************************)
VARIABLES
    now,        \* time.monotonic()
    last_ts,    \* llm_classification._last_ts
    api_key,    \* whether PERP_API_KEY or PERPLEXITY_API_KEY is set
    server,     \* the responses the remote service can give
    scorer,     \* the scores rapidfuzz's scorers can give
    pc,         \* where each caller is
    entry,      \* the function each caller called
    listing,    \* match_trim's listing
    cands,      \* match_trim's candidate_trims
    allow,      \* match_trim's allow_external_llm
    attempt,    \* llm_assign's attempt
    now_l,      \* _rate_limit's now
    wait,       \* _rate_limit's wait
    clock_l,    \* the value of time.monotonic() read at line 30
    wake,       \* when the caller's sleep or request ends
    resp,       \* the response of the caller's last request
    ai_guess,   \* llm_assign's return value
    result,     \* match_trim's return value
    events,     \* what each caller has done, in order
    scored,     \* the calls of _best_by_scorer each caller has made
    arg,        \* the argument of a helper called on its own
    ret,        \* what the helper returned
    listings,   \* the committed rows of table listings
    trim_history, \* the committed rows of table trim_history, in order
    session,    \* the request's Session: its rows and its added objects
    job,        \* the batch job that is running, if any
    reply       \* how the last database operation ended

vars == <<now, last_ts, api_key, server, pc, entry, listing, cands, allow,
          attempt, now_l, wait, clock_l, wake, resp, ai_guess, result, events,
          scorer, scored, arg, ret, listings, trim_history, session, job,
          reply>>

Ev(e, k, v, s) == [e |-> e, k |-> k, v |-> v, s |-> s]

Unmatched == Result(None, 0, M_UNMATCHED)

\* llm_assign's unmatched dictionary
LlmUnmatched == Result(<<>>, 0, M_UNMATCHED)

Log(p, evs) == events' = [events EXCEPT ![p] = @ \o evs]

inputs == <<api_key, server, scorer, entry, listing, cands, allow>>

\* the helper call of the runs that apply one helper on its own
helper == <<arg, ret>>

rl_locals == <<now_l, wait, clock_l>>

Goto(p, where) == pc' = [pc EXCEPT ![p] = where]

NoListing == Listing(None, None, None)

(***************************************************************************)
(* The database: tables listings and trim_history, and the Session of the  *)
(* request that is running (autoflush off: everything is written at        *)
(* commit).  Requests are served one at a time.                            *)
(***************************************************************************)
\* how many listings the table holds
NumListings == 2

\* how many rows trim_history may grow to
MaxHistory == 3

AdIds == 1..NumListings

\* an ad_id no listing has
NoAd == NumListings + 1

\* listings.py:607  the smallest batch_size the endpoint accepts
MIN_BATCH_SIZE == 10

\* column listings.trim: the first listing has a trim, the others none
RawTrim(ad) == IF ad = 1 THEN <<"S","E">> ELSE None

\* models.py:23-39  a row of listings that was never processed: its
\* trim_confidence is NULL (<<>>, a value c is <<c>>); writes counts the
\* assignments to normalized_trim
NewRow(t) ==
    [trim |-> t, normalized_trim |-> None, trim_confidence |-> <<>>,
     assignment_method |-> None, needs_review |-> FALSE,
     processed_at |-> FALSE, writes |-> 0]

\* models.py:41-49  a row of trim_history
TrimHistory(ad, old, new, by) ==
    [listing_id |-> ad, old_trim |-> old, new_trim |-> new, changed_by |-> by]

\* what match_trim can return to a handler
MatchResults ==
    { Result(<<"S","E">>, 100, M_EXACT),
      Result(None, 0, M_UNMATCHED) }

\* what the payload of assign_trim_manual can name
ManualTrims == { <<"L","E">>, None }

\* Python's  a or b
Or(a, b) == IF Truthy(a) THEN a ELSE b

\* no batch job runs
IdleJob == [op |-> "idle", todo |-> <<>>, done |-> <<>>, processed_count |-> 0,
            batch_size |-> 0, h0 |-> 0]

Reply(op, status) ==
    [op |-> op, status |-> status, done |-> <<>>, h0 |-> 0]

store == <<listings, trim_history, session, job, reply>>

\* the program outside the database
program == <<now, last_ts, inputs, helper, pc, attempt, rl_locals, wake, resp,
             ai_guess, result, events, scored>>

\* every listing is new, nothing was recorded, no request runs
InitStore ==
    /\ listings = [ad \in AdIds |-> NewRow(RawTrim(ad))]
    /\ session = [listings |-> listings, added |-> <<>>]
    /\ trim_history = <<>>
    /\ job = IdleJob
    /\ reply = Reply("none", "none")

\* the database is not used
NoStore ==
    /\ listings = [ad \in AdIds |-> NewRow(None)]
    /\ session = [listings |-> [ad \in AdIds |-> NewRow(None)], added |-> <<>>]
    /\ trim_history = <<>>
    /\ job = IdleJob
    /\ reply = Reply("none", "none")

\* no caller has done anything
InitCallers ==
    /\ now = StartTime
    /\ last_ts = 0
    /\ attempt = [p \in Callers |-> 0]
    /\ now_l = [p \in Callers |-> 0]
    /\ wait = [p \in Callers |-> 0]
    /\ clock_l = [p \in Callers |-> 0]
    /\ wake = [p \in Callers |-> 0]
    /\ resp = [p \in Callers |-> NoResp]
    /\ ai_guess = [p \in Callers |-> LlmUnmatched]
    /\ result = [p \in Callers |-> Unmatched]
    /\ events = [p \in Callers |-> <<>>]
    /\ scored = [p \in Callers |-> <<>>]

InitCommon ==
    /\ NoStore
    /\ InitCallers

\* one caller of match_trim
Init ==
    /\ InitCommon
    /\ arg = None /\ ret = None
    /\ api_key \in BOOLEAN
    /\ server = Responses
    /\ scorer = CoarseScores
    /\ pc = [p \in Callers |-> IF p = 1 THEN "start" ELSE "off"]
    /\ entry = [p \in Callers |-> "match_trim"]
    /\ \E li \in Listings :
          listing = [p \in Callers |-> IF p = 1 THEN li ELSE NoListing]
    /\ \E cs \in CandLists :
          cands = [p \in Callers |-> IF p = 1 THEN cs ELSE <<>>]
    /\ \E a \in BOOLEAN : allow = [p \in Callers |-> a]

\* one caller of match_trim with the classifier disabled, the scorers free
\* to give any score around the two thresholds
InitFuzzy ==
    /\ InitCommon
    /\ arg = None /\ ret = None
    /\ api_key = FALSE
    /\ server = Responses
    /\ scorer = Scores
    /\ pc = [p \in Callers |-> IF p = 1 THEN "start" ELSE "off"]
    /\ entry = [p \in Callers |-> "match_trim"]
    /\ \E li \in FuzzyListings :
          listing = [p \in Callers |-> IF p = 1 THEN li ELSE NoListing]
    /\ \E cs \in FuzzyCandLists :
          cands = [p \in Callers |-> IF p = 1 THEN cs ELSE <<>>]
    /\ allow = [p \in Callers |-> FALSE]

\* no caller runs
InitNoCaller ==
    /\ InitCallers
    /\ api_key = FALSE
    /\ server = {}
    /\ scorer = {}
    /\ pc = [p \in Callers |-> "off"]
    /\ entry = [p \in Callers |-> "match_trim"]
    /\ listing = [p \in Callers |-> NoListing]
    /\ cands = [p \in Callers |-> <<>>]
    /\ allow = [p \in Callers |-> FALSE]

\* a helper is called on its own
InitIdle ==
    /\ NoStore
    /\ InitNoCaller

\* the handlers that write the database are called, one request at a time
InitDb ==
    /\ InitStore
    /\ InitNoCaller
    /\ arg = None /\ ret = None

\* the rows the query of get_candidate_trims can return: UNION leaves no row
\* twice
TrimNames ==
    { <<"S","E">>, <<"s","e">>, <<" ","S","E">>, <<"S","E","-","X">>,
      <<"S","E"," ","X">>, <<" ">> }

RowLists ==
    { rows \in UNION { [1..n -> TrimNames] : n \in 0..3 } :
         \A i, j \in DOMAIN rows : i # j => rows[i] # rows[j] }

\* get_candidate_trims is called and the query returns rows
InitCandidates ==
    /\ InitIdle
    /\ arg \in RowLists
    /\ ret = <<>>

\* the characters of the strings _norm is called with
NormChars == {"S", "s", "1", " ", "-"}

\* how long those strings are
MaxLen == 3

RawStrings == UNION { [1..n -> NormChars] : n \in 0..MaxLen }

\* _norm is called with a string or with None
InitNorm ==
    /\ InitIdle
    /\ arg \in RawStrings \cup {None}
    /\ ret = None

\* how far below 0 and above 1 the confidences _clip01 is called with
\* reach, in hundredths
ConfMargin == 20

\* a number, a NaN, or a value float() rejects
ClipInputs ==
    { NumConf(v) : v \in (0 - ConfMargin)..(100 + ConfMargin) }
    \cup {NanConf, BadConf}

\* _clip01 is called with a confidence
InitClip ==
    /\ InitIdle
    /\ arg \in ClipInputs
    /\ ret = <<>>

\* _canonical_method is called with a label
InitCanonical ==
    /\ InitIdle
    /\ arg \in Labels
    /\ ret = None

\* every caller calls llm_assign at once
InitConc ==
    /\ InitCommon
    /\ arg = None /\ ret = None
    /\ api_key \in BOOLEAN
    /\ server = Answers
    /\ scorer = CoarseScores
    /\ pc = [p \in Callers |-> "llm_start"]
    /\ entry = [p \in Callers |-> "llm_assign"]
    /\ listing = [p \in Callers |-> Listing(<<"Q">>, None, None)]
    /\ cands = [p \in Callers |-> << <<"S","E">>, <<"L","E">> >>]
    /\ allow = [p \in Callers |-> TRUE]

\* the service answers, or the request times out, or no connection is made
AnswerOrFail ==
    Answers \cup { Resp(n, 0, "none", NoText) : n \in {"timeout", "conn"} }

\* llm_assign is called again and again, each call after the one before
\* has returned
InitSeq ==
    /\ InitCommon
    /\ arg = None /\ ret = None
    /\ api_key = TRUE
    /\ server = AnswerOrFail
    /\ scorer = CoarseScores
    /\ pc = [p \in Callers |-> "queued"]
    /\ entry = [p \in Callers |-> "llm_assign"]
    /\ listing = [p \in Callers |-> Listing(<<"Q">>, None, None)]
    /\ cands = [p \in Callers |-> << <<"S","E">>, <<"L","E">> >>]
    /\ allow = [p \in Callers |-> TRUE]

(***************************************************************************)
(* match_trim                                                              *)
(***************************************************************************)
\* matching.py:145-170  candidate maps and the exact stage
MatchTrim(p) ==
    /\ pc[p] = "start"
    /\ LET cl == CandList(cands[p])
           ex == ExactStage(Norm(listing[p].trim), cl)
       IN IF cl = <<>>
          THEN /\ result' = [result EXCEPT ![p] = Unmatched]
               /\ Goto(p, "done")
               /\ UNCHANGED events
          ELSE IF ex.method # M_UNMATCHED
          THEN /\ result' = [result EXCEPT ![p] = ex]
               /\ Goto(p, "done")
               /\ Log(p, <<Ev("stage", 0, 0, "exact"), Ev("accept", 0, 0, "exact")>>)
          ELSE /\ Goto(p, AfterExact(allow[p]))
               /\ Log(p, <<Ev("stage", 0, 0, "exact")>>)
               /\ UNCHANGED result
    /\ UNCHANGED <<now, last_ts, inputs, helper, store, scored, attempt, rl_locals, wake, resp, ai_guess>>

\* matching.py:173-188  the classifier's dictionary is accepted or dropped
MtAfterLlm(p) ==
    /\ pc[p] = "mt_llm"
    /\ IF LlmAccepts(ai_guess[p], CandList(cands[p]))
       THEN /\ result' = [result EXCEPT ![p] = LlmStage(ai_guess[p], CandList(cands[p]))]
            /\ Goto(p, "done")
            /\ Log(p, <<Ev("accept", 0, 0, "llm")>>)
            /\ UNCHANGED resp
       ELSE /\ Goto(p, "fuzzy1")
            /\ resp' = [resp EXCEPT ![p] = NoResp]
            /\ UNCHANGED <<result, events>>
    /\ UNCHANGED <<now, last_ts, inputs, helper, store, scored, attempt, rl_locals, wake, ai_guess>>

\* matching.py:200-207  fuzzy Tier 1
Fuzzy1(p) ==
    /\ pc[p] = "fuzzy1"
    /\ LET cl == CandList(cands[p])
           nc == NormalizedCandidates(cl)
           raw_trim_norm == Norm(listing[p].trim)
       IN \E sc \in ScoreTables(scorer, raw_trim_norm # <<>>, Len(nc)) :
            LET r == FuzzyTier1(raw_trim_norm, sc, nc, cl)
            IN /\ scored' = [scored EXCEPT
                                ![p] = @ \o Tier1Calls(raw_trim_norm, sc)]
               /\ IF r.method # M_UNMATCHED
                  THEN /\ result' = [result EXCEPT ![p] = r]
                       /\ Goto(p, "done")
                       /\ Log(p, <<Ev("stage", 0, 0, "fuzzy1"),
                                   Ev("accept", 0, 0, "fuzzy1")>>)
                  ELSE /\ Goto(p, "fuzzy2")
                       /\ Log(p, <<Ev("stage", 0, 0, "fuzzy1")>>)
                       /\ UNCHANGED result
    /\ UNCHANGED <<now, last_ts, inputs, helper, store, attempt, rl_locals, wake, resp, ai_guess>>

\* matching.py:209-255  fuzzy Tier 2 and the final unmatched
Fuzzy2(p) ==
    /\ pc[p] = "fuzzy2"
    /\ LET cl == CandList(cands[p])
           nc == NormalizedCandidates(cl)
           combined == Combined(listing[p])
           desc_norm == DescNorm(listing[p])
       IN \E sa \in ScoreTables(scorer, combined # <<>> \/ desc_norm # <<>>, Len(nc)),
             sb \in ScoreTables(scorer, combined # <<>>, Len(nc)) :
            LET r == FuzzyTier2(combined, desc_norm, sa, sb, nc, cl)
            IN /\ scored' = [scored EXCEPT
                                ![p] = @ \o Tier2Calls(combined, desc_norm, sa, sb, nc)]
               /\ result' = [result EXCEPT ![p] = r]
               /\ Goto(p, "done")
               /\ IF r.method # M_UNMATCHED
                  THEN Log(p, <<Ev("stage", 0, 0, "fuzzy2"), Ev("accept", 0, 0, "fuzzy2")>>)
                  ELSE Log(p, <<Ev("stage", 0, 0, "fuzzy2")>>)
    /\ UNCHANGED <<now, last_ts, inputs, helper, store, attempt, rl_locals, wake, resp, ai_guess>>

(***************************************************************************)
(* llm_assign                                                              *)
(***************************************************************************)
\* A sleep or a request of caller p ends at wake[p]; it is the next one to
\* end when no other caller's ends earlier, and time has then passed.
Timed(p) == pc[p] \in {"rl_sleep", "await", "backoff"}

TimerEnds(p) ==
    /\ \A q \in Callers : Timed(q) => wake[p] <= wake[q]
    /\ now' = IF wake[p] > now THEN wake[p] ELSE now

\* llm_assign returns dictionary d: match_trim goes on at line 173, a direct
\* caller has its result
Return(p, d) ==
    /\ ai_guess' = [ai_guess EXCEPT ![p] = d]
    /\ IF entry[p] = "match_trim"
       THEN /\ Goto(p, "mt_llm")
            /\ UNCHANGED result
       ELSE /\ Goto(p, "done")
            /\ result' = [result EXCEPT ![p] = d]

\* An llm_assign that goes on to its first attempt without a credential.
LlmAssignWithoutKeyCheck(p) ==
    /\ pc[p] = "llm_start"
    /\ attempt' = [attempt EXCEPT ![p] = 1]
    /\ Goto(p, "rl_now")
    /\ Log(p, <<Ev("stage", 0, 0, "llm")>>)
    /\ UNCHANGED <<now, last_ts, inputs, helper, store, scored, rl_locals, wake, resp,
                   ai_guess, result>>

\* llm_classification.py:95-158  the credential check and the first attempt
LlmAssign(p) ==
    /\ pc[p] = "llm_start"
    /\ IF api_key
       THEN /\ attempt' = [attempt EXCEPT ![p] = 1]
            /\ Goto(p, "rl_now")
            /\ UNCHANGED <<ai_guess, result>>
       ELSE /\ Return(p, LlmUnmatched)
            /\ UNCHANGED attempt
    /\ Log(p, <<Ev("stage", 0, 0, "llm")>>)
    /\ UNCHANGED <<now, last_ts, inputs, helper, store, scored, rl_locals, wake, resp>>

\* matching.py:187-188  an exception that leaves llm_assign (raised outside
\* its retry loop) is logged by match_trim, which goes on; a direct caller
\* gets the exception
LlmRaise(p) ==
    /\ pc[p] = "llm_start"
    /\ Goto(p, AfterLlmRaise(entry[p]))
    /\ Log(p, <<Ev("stage", 0, 0, "llm"), Ev("raise", 0, 0, "llm")>>)
    /\ UNCHANGED <<now, last_ts, inputs, helper, store, scored, attempt, rl_locals, wake, resp,
                   ai_guess, result>>

\* llm_classification.py:26  now = time.monotonic()
RlNow(p) ==
    /\ pc[p] = "rl_now"
    /\ now_l' = [now_l EXCEPT ![p] = now]
    /\ Goto(p, "rl_read")
    /\ UNCHANGED <<now, last_ts, inputs, helper, store, scored, attempt, wait, clock_l, wake, resp,
                   ai_guess, result, events>>

\* llm_classification.py:27-29  wait = min_interval - (now - _last_ts), and
\* the sleep begins when wait > 0
RlRead(p) ==
    /\ pc[p] = "rl_read"
    /\ LET w == MIN_INTERVAL - (now_l[p] - last_ts)
       IN /\ wait' = [wait EXCEPT ![p] = w]
          /\ IF w > 0
             THEN /\ wake' = [wake EXCEPT ![p] = now + w]
                  /\ Goto(p, "rl_sleep")
                  /\ Log(p, <<Ev("rate", attempt[p], w, "")>>)
             ELSE /\ Goto(p, "rl_clock")
                  /\ UNCHANGED <<wake, events>>
    /\ UNCHANGED <<now, last_ts, inputs, helper, store, scored, attempt, now_l, clock_l, resp,
                   ai_guess, result>>

\* llm_classification.py:29  time.sleep(wait) returns
RlWake(p) ==
    /\ pc[p] = "rl_sleep"
    /\ TimerEnds(p)
    /\ Goto(p, "rl_clock")
    /\ UNCHANGED <<last_ts, inputs, helper, store, scored, attempt, rl_locals, wake, resp,
                   ai_guess, result, events>>

\* llm_classification.py:30  time.monotonic() is read
RlClock(p) ==
    /\ pc[p] = "rl_clock"
    /\ clock_l' = [clock_l EXCEPT ![p] = now]
    /\ Goto(p, "rl_store")
    /\ UNCHANGED <<now, last_ts, inputs, helper, store, scored, attempt, now_l, wait, wake, resp,
                   ai_guess, result, events>>

\* A gate that does not record when it was passed.
RlStoreForgets(p) ==
    /\ pc[p] = "rl_store"
    /\ Goto(p, "post")
    /\ Log(p, <<Ev("pass", attempt[p], now, "")>>)
    /\ UNCHANGED <<now, last_ts, inputs, helper, store, scored, attempt, rl_locals, wake, resp,
                   ai_guess, result>>

\* llm_classification.py:30  _last_ts is stored
RlStore(p) ==
    /\ pc[p] = "rl_store"
    /\ last_ts' = clock_l[p]
    /\ Goto(p, "post")
    /\ Log(p, <<Ev("pass", attempt[p], now, "")>>)
    /\ UNCHANGED <<now, inputs, helper, store, scored, attempt, rl_locals, wake, resp, ai_guess, result>>

\* llm_classification.py:161-166  requests.post: the request is issued
Post(p) ==
    /\ pc[p] = "post"
    /\ \E r \in server :
          /\ resp' = [resp EXCEPT ![p] = r]
          /\ wake' = [wake EXCEPT ![p] = now + Duration(r, RTT)]
    /\ Goto(p, "await")
    /\ Log(p, <<Ev("req", attempt[p], now, "")>>)
    /\ UNCHANGED <<now, last_ts, inputs, helper, store, scored, attempt, rl_locals, ai_guess, result>>

\* llm_classification.py:167-204  the response is handled: a returned
\* dictionary, a backoff sleep, or the unmatched of an unexpected exception
Respond(p) ==
    /\ pc[p] = "await"
    /\ TimerEnds(p)
    /\ LET exc == AttemptException(resp[p])
       IN IF exc = "none"
          THEN /\ Return(p, Validate(ExtractJson(resp[p].text), CandList(cands[p])))
               /\ UNCHANGED <<wake, events>>
          ELSE IF Retried(exc)
          THEN /\ wake' = [wake EXCEPT ![p] = now' + SleepS(attempt[p])]
               /\ Goto(p, "backoff")
               /\ Log(p, <<Ev("backoff", attempt[p], SleepS(attempt[p]), "")>>)
               /\ UNCHANGED <<ai_guess, result>>
          ELSE /\ Return(p, LlmUnmatched)
               /\ UNCHANGED <<wake, events>>
    /\ UNCHANGED <<last_ts, inputs, helper, store, scored, attempt, rl_locals, resp>>

\* A retry loop that calls _rate_limit for the first attempt only.
BackoffDoneSkipsGate(p) ==
    /\ pc[p] = "backoff"
    /\ TimerEnds(p)
    /\ IF attempt[p] < MAX_RETRIES
       THEN /\ attempt' = [attempt EXCEPT ![p] = @ + 1]
            /\ resp' = [resp EXCEPT ![p] = NoResp]
            /\ Goto(p, "post")
            /\ UNCHANGED <<ai_guess, result>>
       ELSE /\ Return(p, LlmUnmatched)
            /\ UNCHANGED <<attempt, resp>>
    /\ UNCHANGED <<last_ts, inputs, helper, store, scored, rl_locals, wake, events>>

\* A retry loop that makes one attempt more than MAX_RETRIES.
BackoffDoneOneMore(p) ==
    /\ pc[p] = "backoff"
    /\ TimerEnds(p)
    /\ IF attempt[p] <= MAX_RETRIES
       THEN /\ attempt' = [attempt EXCEPT ![p] = @ + 1]
            /\ resp' = [resp EXCEPT ![p] = NoResp]
            /\ Goto(p, "rl_now")
            /\ UNCHANGED <<ai_guess, result>>
       ELSE /\ Return(p, LlmUnmatched)
            /\ UNCHANGED <<attempt, resp>>
    /\ UNCHANGED <<last_ts, inputs, helper, store, scored, rl_locals, wake, events>>

\* llm_classification.py:200, 158, 206-207  the backoff sleep returns: the
\* next attempt, or unmatched after the last one
BackoffDone(p) ==
    /\ pc[p] = "backoff"
    /\ TimerEnds(p)
    /\ IF attempt[p] < MAX_RETRIES
       THEN /\ attempt' = [attempt EXCEPT ![p] = @ + 1]
            /\ resp' = [resp EXCEPT ![p] = NoResp]
            /\ Goto(p, "rl_now")
            /\ UNCHANGED <<ai_guess, result>>
       ELSE /\ Return(p, LlmUnmatched)
            /\ UNCHANGED <<attempt, resp>>
    /\ UNCHANGED <<last_ts, inputs, helper, store, scored, rl_locals, wake, events>>

\* llm_classification.py:82  the next call of llm_assign begins
CallLlmAssign(p) ==
    /\ pc[p] = "queued"
    /\ p <= NumCalls
    /\ \A q \in Callers : q < p => pc[q] = "done"
    /\ Goto(p, "llm_start")
    /\ Log(p, <<Ev("call", 0, now, "")>>)
    /\ UNCHANGED <<now, last_ts, inputs, helper, store, scored, attempt, rl_locals,
                   wake, resp, ai_guess, result>>

LlmNext(p) ==
    \/ LlmAssign(p)
    \/ LlmRaise(p)
    \/ RlNow(p)
    \/ RlRead(p)
    \/ RlWake(p)
    \/ RlClock(p)
    \/ RlStore(p)
    \/ Post(p)
    \/ Respond(p)
    \/ BackoffDone(p)

Next ==
    \E p \in Callers :
       \/ MatchTrim(p)
       \/ MtAfterLlm(p)
       \/ Fuzzy1(p)
       \/ Fuzzy2(p)
       \/ LlmNext(p)

\* callers of llm_assign while the service answers every request: no
\* attempt fails
NextConc ==
    \E p \in Callers :
       \/ LlmAssign(p)
       \/ RlNow(p)
       \/ RlRead(p)
       \/ RlWake(p)
       \/ RlClock(p)
       \/ RlStore(p)
       \/ Post(p)
       \/ Respond(p)

\* calls of llm_assign one after another
NextSeq ==
    \E p \in Callers :
       \/ CallLlmAssign(p)
       \/ LlmAssign(p)
       \/ RlNow(p)
       \/ RlRead(p)
       \/ RlWake(p)
       \/ RlClock(p)
       \/ RlStore(p)
       \/ Post(p)
       \/ Respond(p)
       \/ BackoffDone(p)

\* match_trim with the classifier disabled
NextFuzzy ==
    \E p \in Callers :
       \/ MatchTrim(p)
       \/ Fuzzy1(p)
       \/ Fuzzy2(p)

\* matching.py:37-58  _canonical_method returns
CanonicalMethodReturns ==
    /\ ret = None
    /\ ret' = CanonicalMethod(arg)
    /\ UNCHANGED <<now, last_ts, inputs, pc, attempt, rl_locals, wake, resp,
                   ai_guess, result, events, scored, arg, store>>

NextCanonical == CanonicalMethodReturns

\* llm_classification.py:76-80 and matching.py:31-35  _clip01 returns c
\* (ret is <<c>>)
Clip01Returns ==
    /\ ret = <<>>
    /\ ret' = <<Clip01(arg)>>
    /\ UNCHANGED <<now, last_ts, inputs, pc, attempt, rl_locals, wake, resp,
                   ai_guess, result, events, scored, arg, store>>

\* matching.py:23-29  _norm returns
NormReturns ==
    /\ ret = None
    /\ ret' = Norm(arg)
    /\ UNCHANGED <<now, last_ts, inputs, pc, attempt, rl_locals, wake, resp,
                   ai_guess, result, events, scored, arg, store>>

RECURSIVE Deduplicate(_, _, _)
\* matching.py:112-121  the loop of get_candidate_trims over the rows left
Deduplicate(rows, seen, out) ==
    IF rows = <<>> THEN out
    ELSE LET t == Strip(Or(Head(rows), <<>>))
         IN IF ~Truthy(t) \/ Lower(t) \in seen
            THEN Deduplicate(Tail(rows), seen, out)
            ELSE Deduplicate(Tail(rows), seen \cup {Lower(t)}, Append(out, t))

\* matching.py:83-121  get_candidate_trims returns
GetCandidateTrimsReturns ==
    /\ ret' = Deduplicate(arg, {}, <<>>)
    /\ UNCHANGED <<now, last_ts, inputs, pc, attempt, rl_locals, wake, resp,
                   ai_guess, result, events, scored, arg, store>>

(***************************************************************************)
(* The handlers that write listings and trim_history                       *)
(***************************************************************************)
\* models.py:47  new_trim is NOT NULL: the flush fails on a row without it
Flushable(s) == \A i \in DOMAIN s.added : s.added[i].new_trim # None

\* A commit that writes the rows of listings and drops the added objects.
CommitRowsOnly(s) ==
    /\ listings' = s.listings
    /\ trim_history' = trim_history
    /\ session' = [listings |-> s.listings, added |-> <<>>]

\* Session.commit(): the dirty rows and the added objects are written in
\* one transaction
Commit(s) ==
    /\ listings' = s.listings
    /\ trim_history' = trim_history \o s.added
    /\ session' = [listings |-> s.listings, added |-> <<>>]

\* listings.py:22-26  get_db closes the Session of a request that raised:
\* what was not committed is gone
Close ==
    /\ session' = [listings |-> listings, added |-> <<>>]
    /\ UNCHANGED <<listings, trim_history>>

\* db.commit() at the end of a handler: it raises when the flush fails
CommitOrRaise(s, op) ==
    IF Flushable(s)
    THEN Commit(s) /\ reply' = Reply(op, "ok")
    ELSE Close /\ reply' = Reply(op, "IntegrityError")

\* the Session after a handler changed row ad and added history row h
Staged(ad, row, h) ==
    [listings |-> [session.listings EXCEPT ![ad] = row],
     added |-> session.added \o <<h>>]

HistoryRoom == Len(trim_history) + Len(session.added) < MaxHistory

\* db_utils.py:56-60  the row update_listing_with_match leaves
MatchedRow(row, safe_trim, confidence, method) ==
    [row EXCEPT !.normalized_trim = safe_trim,
                !.trim_confidence = <<confidence>>,
                !.assignment_method = method,
                !.needs_review = (method = M_UNMATCHED),
                !.processed_at = TRUE,
                !.writes = @ + 1]

\* An update_listing_with_match that stores the trim it was passed, without
\* the fallbacks.
UpdateListingWithMatchAsPassed(ad, r) ==
    /\ job.op = "idle"
    /\ HistoryRoom
    /\ IF ad \notin AdIds
       THEN /\ reply' = Reply("update_listing_with_match", "None")
            /\ UNCHANGED <<listings, trim_history, session>>
       ELSE LET row == session.listings[ad]
                old_trim == Or(row.normalized_trim, Or(row.trim, M_UNMATCHED))
                h == TrimHistory(ad, old_trim, r.trim, "system_match")
            IN CommitOrRaise(
                  Staged(ad, MatchedRow(row, r.trim, r.confidence, r.method), h),
                  "update_listing_with_match")
    /\ UNCHANGED <<job, program>>

\* db_utils.py:35-72  update_listing_with_match(db, ad_id, normalized_trim,
\* confidence, method)
UpdateListingWithMatch(ad, r) ==
    /\ job.op = "idle"
    /\ HistoryRoom
    /\ IF ad \notin AdIds
       THEN /\ reply' = Reply("update_listing_with_match", "None")
            /\ UNCHANGED <<listings, trim_history, session>>
       ELSE LET row == session.listings[ad]
                old_trim == Or(row.normalized_trim, Or(row.trim, M_UNMATCHED))
                safe_trim == Or(r.trim, Or(row.trim, M_UNMATCHED))
                h == TrimHistory(ad, old_trim, safe_trim, "system_match")
            IN CommitOrRaise(
                  Staged(ad, MatchedRow(row, safe_trim, r.confidence, r.method), h),
                  "update_listing_with_match")
    /\ UNCHANGED <<job, program>>

\* db_utils.py:8-29  the listings get_unprocessed_listings selects
Unprocessed ==
    { ad \in AdIds : ~listings[ad].processed_at \/ listings[ad].needs_review }

\* listings.py:76-163  process_listings: the rows fetched have five columns
\* and line 97 unpacks seven
ProcessListings ==
    /\ job.op = "idle"
    /\ IF Unprocessed = {}
       THEN reply' = Reply("process_listings", "ok")
       ELSE reply' = Reply("process_listings", "ValueError")
    /\ Close
    /\ UNCHANGED <<job, program>>

\* listings.py:315-364  assign_trim_manual
AssignTrimManual(ad, normalized_trim) ==
    /\ job.op = "idle"
    /\ HistoryRoom
    /\ IF ad \notin AdIds
       THEN /\ reply' = Reply("assign_trim_manual", "404")
            /\ Close
       ELSE LET row == session.listings[ad]
                old_trim == row.normalized_trim
                new == [row EXCEPT !.normalized_trim = normalized_trim,
                                   !.trim_confidence = <<100>>,
                                   !.assignment_method = M_MANUAL,
                                   !.needs_review = FALSE,
                                   !.writes = @ + 1]
                h == TrimHistory(ad, old_trim, normalized_trim, "manual")
            IN CommitOrRaise(Staged(ad, new, h), "assign_trim_manual")
    /\ UNCHANGED <<job, program>>

\* A reprocess that never asks for a review.
ReprocessedRowNoReview(row, r) ==
    [row EXCEPT !.normalized_trim = r.trim,
                !.trim_confidence = <<r.confidence>>,
                !.assignment_method = r.method,
                !.needs_review = FALSE,
                !.processed_at = TRUE,
                !.writes = @ + 1]

\* listings.py:385-390 and 651-655  the row a reprocess leaves
ReprocessedRow(row, r) ==
    [row EXCEPT !.normalized_trim = r.trim,
                !.trim_confidence = <<r.confidence>>,
                !.assignment_method = r.method,
                !.needs_review = (r.method = M_UNMATCHED),
                !.processed_at = TRUE,
                !.writes = @ + 1]

\* listings.py:370-402  reprocess_listing
ReprocessListing(ad, r) ==
    /\ job.op = "idle"
    /\ HistoryRoom
    /\ IF ad \notin AdIds
       THEN /\ reply' = Reply("reprocess_listing", "404")
            /\ Close
       ELSE LET row == session.listings[ad]
                old_trim == row.normalized_trim
                h == TrimHistory(ad, old_trim, r.trim, "system_reprocess")
            IN CommitOrRaise(Staged(ad, ReprocessedRow(row, r), h),
                             "reprocess_listing")
    /\ UNCHANGED <<job, program>>

RECURSIVE Ascending(_)
\* the elements of a set of ad_ids, in order
Ascending(S) ==
    IF S = {} THEN <<>>
    ELSE LET m == CHOOSE x \in S : \A y \in S : x <= y
         IN <<m>> \o Ascending(S \ {m})

\* listings.py:615  the listings reprocess_processed selects
Processed == { ad \in AdIds : listings[ad].processed_at }

\* listings.py:601-629  reprocess_processed with its default parameters,
\* up to the loop
RpStart ==
    /\ job.op = "idle"
    /\ IF Processed = {}
       THEN /\ reply' = Reply("reprocess_processed", "ok")
            /\ UNCHANGED job
       ELSE /\ job' = [op |-> "reprocess_processed",
                       todo |-> Ascending(Processed), done |-> <<>>,
                       processed_count |-> 0, batch_size |-> MIN_BATCH_SIZE,
                       h0 |-> Len(trim_history)]
            /\ UNCHANGED reply
    /\ Close
    /\ UNCHANGED program

\* listings.py:631-681  one pass of the loop of reprocess_processed
RpListing(r) ==
    /\ job.op = "reprocess_processed"
    /\ job.todo # <<>>
    /\ HistoryRoom
    /\ LET ad == Head(job.todo)
           row == session.listings[ad]
           old_trim == row.normalized_trim
           new_trim == Or(r.trim, <<>>)
           h == TrimHistory(ad, old_trim, new_trim, "system_bulk_reprocess")
           s == Staged(ad, ReprocessedRow(row, r), h)
           processed_count == job.processed_count + 1
       IN /\ job' = [job EXCEPT !.todo = Tail(@), !.done = Append(@, ad),
                                !.processed_count = processed_count]
          /\ IF processed_count % job.batch_size = 0
             THEN IF Flushable(s)
                  THEN Commit(s) /\ UNCHANGED reply
                  ELSE /\ Close
                       /\ reply' = Reply("reprocess_processed", "IntegrityError")
             ELSE /\ session' = s
                  /\ UNCHANGED <<listings, trim_history, reply>>
    /\ UNCHANGED program

\* listings.py:683-689  the last commit of reprocess_processed
RpReturn ==
    /\ job.op = "reprocess_processed"
    /\ job.todo = <<>>
    /\ CommitOrRaise(session, "reprocess_processed")
    /\ job' = IdleJob
    /\ UNCHANGED program

\* listings.py:631-647  a pass of the loop raises (the query of
\* get_candidate_trims fails, the connection drops) or the request is
\* cancelled: the Session is closed
RpFail ==
    /\ job.op = "reprocess_processed"
    /\ job.todo # <<>>
    /\ reply' = [op |-> "reprocess_processed", status |-> "failed",
                 done |-> job.done, h0 |-> job.h0]
    /\ Close
    /\ job' = IdleJob
    /\ UNCHANGED program

NextDb ==
    \/ \E ad \in AdIds \cup {NoAd}, r \in MatchResults :
          UpdateListingWithMatch(ad, r)
    \/ ProcessListings
    \/ \E ad \in AdIds \cup {NoAd}, t \in ManualTrims : AssignTrimManual(ad, t)
    \/ \E ad \in AdIds \cup {NoAd}, r \in MatchResults : ReprocessListing(ad, r)
    \/ RpStart
    \/ \E r \in MatchResults : RpListing(r)
    \/ RpReturn
    \/ RpFail

Spec == Init /\ [][Next]_vars

SpecDb == InitDb /\ [][NextDb]_vars

SpecClip == InitClip /\ [][Clip01Returns]_vars

SpecNorm == InitNorm /\ [][NormReturns]_vars

SpecSeq == InitSeq /\ [][NextSeq]_vars

SpecCandidates == InitCandidates /\ [][GetCandidateTrimsReturns]_vars

SpecCanonical == InitCanonical /\ [][NextCanonical]_vars

SpecFuzzy == InitFuzzy /\ [][NextFuzzy]_vars

SpecConc == InitConc /\ [][NextConc]_vars

(***************************************************************************)
(* What the event log says                                                 *)
(***************************************************************************)
IsStageEv(e) == e.e = "stage"

IsRetryEv(e) == e.e \in {"req", "backoff"}

IsReqEv(e) == e.e = "req"

\* the stages caller p has evaluated, in order
StagesOf(p) ==
    LET st == SelectSeq(events[p], IsStageEv)
    IN [i \in 1..Len(st) |-> st[i].s]

\* the requests and backoff sleeps of caller p, in order
RetryTrace(p) == SelectSeq(events[p], IsRetryEv)

LastEv(p) == events[p][Len(events[p])]

HasEv(p, e, s) == \E i \in 1..Len(events[p]) : events[p][i].e = e /\ events[p][i].s = s

IsPrefix(a, b) == Len(a) <= Len(b) /\ SubSeq(b, 1, Len(a)) = a

\* match_trim has returned to caller p
MtDone(p) == entry[p] = "match_trim" /\ pc[p] = "done"

\* llm_assign has returned to caller p and its dictionary is in ai_guess
LlmReturned(p) ==
    IF entry[p] = "match_trim" THEN pc[p] = "mt_llm" ELSE pc[p] = "done"

IsMember(t, cs) == \E i \in 1..Len(cs) : cs[i] = t

\* the normalized forms of the candidates
CandNorms(cs) == {Norm(cs[i]) : i \in 1..Len(cs)}

(***************************************************************************)
(* C1  match_trim evaluates exact, the classifier (only when               *)
(* allow_external_llm), fuzzy Tier 1, fuzzy Tier 2 in this order; the      *)
(* first stage that accepts gives the result and no stage is evaluated     *)
(* after it; when none accepts the result is unmatched.                    *)
(***************************************************************************)
StageOrder(a) ==
    IF a THEN <<"exact", "llm", "fuzzy1", "fuzzy2">>
    ELSE <<"exact", "fuzzy1", "fuzzy2">>

MethodOfStage(st) ==
    IF st = "exact" THEN M_EXACT ELSE IF st = "llm" THEN M_LLM ELSE M_FUZZY

C2_ExactEndsPipeline ==
    \A p \in Callers :
       ( /\ MtDone(p)
         /\ Norm(listing[p].trim) # <<>>
         /\ Norm(listing[p].trim) \in CandNorms(cands[p]) )
       => /\ result[p].method = M_EXACT
          /\ result[p].confidence = 100
          /\ IsMember(result[p].trim, cands[p])
          /\ Norm(result[p].trim) = Norm(listing[p].trim)
          /\ ~HasEv(p, "req", "")
          /\ ~HasEv(p, "stage", "llm")
          /\ last_ts = 0

\* the exact stage has returned a display string that differs from its key
C2_Witness ==
    \E p \in Callers :
       /\ MtDone(p)
       /\ allow[p] /\ api_key
       /\ result[p].method = M_EXACT
       /\ result[p].trim = <<"S","e","-","X">>
       /\ listing[p].trim = <<"S","E"," ","X">>

(***************************************************************************)
(* C3  The trim of every result whose method is not unmatched is one of    *)
(* the supplied candidates in its display form; a classifier answer whose  *)
(* normalized trim is no candidate's normalized form is never the          *)
(* accepted result.                                                        *)
(***************************************************************************)
C3_TrimIsCandidate ==
    \A p \in Callers :
       (MtDone(p) /\ result[p].method # M_UNMATCHED) =>
          /\ IsMember(result[p].trim, cands[p])
          /\ result[p].method = M_LLM =>
                /\ AttemptException(resp[p]) = "none"
                /\ Truthy(resp[p].text.val.trim)
                /\ Norm(resp[p].text.val.trim) \in CandNorms(cands[p])
                /\ Norm(resp[p].text.val.trim) = Norm(result[p].trim)

\* a classifier answer was accepted and its candidate's display string,
\* not the answer's own spelling, was returned
C3_Witness ==
    \E p \in Callers :
       /\ MtDone(p)
       /\ result[p].method = M_LLM
       /\ resp[p].text.val.trim = <<"S","E","_","X">>
       /\ result[p].trim = <<"S","e","-","X">>

(***************************************************************************)
(* C4  Every value match_trim returns has a method of the canonical set,   *)
(* a confidence in [0,1], a non-empty trim only when the method is not     *)
(* unmatched, and an empty trim and confidence 0 when it is unmatched.     *)
(***************************************************************************)
C4_MatchResultInvariant ==
    \A p \in Callers :
       MtDone(p) =>
          /\ result[p].method \in Methods
          /\ result[p].confidence >= 0
          /\ result[p].confidence <= 100
          /\ Truthy(result[p].trim) => result[p].method # M_UNMATCHED
          /\ result[p].method = M_UNMATCHED =>
                ~Truthy(result[p].trim) /\ result[p].confidence = 0

\* an answer with confidence 1.5 was accepted with confidence 1.0
C4_Witness ==
    \E p \in Callers :
       /\ MtDone(p)
       /\ result[p].method = M_LLM
       /\ resp[p].text.val.conf = NumConf(150)
       /\ result[p].confidence = 100

(***************************************************************************)
(* C5  The requests of one llm_assign call are numbered 1, 2, ... up to    *)
(* MAX_RETRIES; a transient failure (timeout, connection failure, 5xx,     *)
(* unparseable body) of attempt k is followed by a backoff sleep of        *)
(* BACKOFF_BASE * 2^(k-1), which has passed before request k+1; and a call *)
(* whose last attempt has also failed this way has issued exactly          *)
(* MAX_RETRIES requests and returns unmatched with confidence 0.           *)
(***************************************************************************)
\* a body from which no JSON value is recovered
Unparseable(r) ==
    /\ r.net = "ok" /\ r.status = 200
    /\ \/ r.env = "notjson"
       \/ r.env = "nochoices"
       \/ r.env = "content" /\ ExtractJson(r.text) = JNone

TransientFailure(r) ==
    \/ r.net \in {"timeout", "conn"}
    \/ r.net = "ok" /\ r.status >= 500
    \/ Unparseable(r)

RetryShape(tr) ==
    /\ Len(tr) <= 2 * MAX_RETRIES
    /\ \A i \in 1..Len(tr) :
          IF i % 2 = 1
          THEN tr[i].e = "req" /\ tr[i].k = (i + 1) \div 2
          ELSE /\ tr[i].e = "backoff"
               /\ tr[i].k = i \div 2
               /\ tr[i].v = BACKOFF_BASE * (2 ^ (tr[i].k - 1))
               /\ i < Len(tr) => tr[i + 1].v - tr[i - 1].v >= tr[i].v

C5_RetriesThenUnmatched ==
    \A p \in Callers :
       LET tr == RetryTrace(p) IN
          /\ RetryShape(tr)
          /\ (pc[p] \in {"backoff", "mt_llm", "done"} /\ TransientFailure(resp[p])) =>
                /\ tr[Len(tr)].e = "backoff"
                /\ tr[Len(tr)].k = attempt[p]
          /\ (LlmReturned(p) /\ TransientFailure(resp[p])) =>
                /\ Len(SelectSeq(tr, IsReqEv)) = MAX_RETRIES
                /\ attempt[p] = MAX_RETRIES
                /\ ai_guess[p] = LlmUnmatched

\* four requests, each timed out, the four backoff sleeps, then unmatched
C5_Witness ==
    \E p \in Callers :
       LET tr == RetryTrace(p) IN
          /\ LlmReturned(p)
          /\ resp[p].net = "timeout"
          /\ Len(tr) = 2 * MAX_RETRIES
          /\ \A i \in 1..(MAX_RETRIES - 1) :
                tr[2 * i + 1].v - tr[2 * i - 1].v = REQUEST_TIMEOUT + tr[2 * i].v
          /\ ai_guess[p] = LlmUnmatched

(***************************************************************************)
(* C6  Any two classifier requests, of whatever callers, are issued at     *)
(* least 1 / RATE_LIMIT_QPS apart.                                         *)
(***************************************************************************)
C6_RequestsSpaced ==
    \A p \in Callers, q \in Callers :
       \A i \in 1..Len(events[p]), j \in 1..Len(events[q]) :
          ( /\ events[p][i].e = "req"
            /\ events[q][j].e = "req"
            /\ <<p, i>> # <<q, j>>
            /\ events[p][i].v <= events[q][j].v )
          => events[q][j].v - events[p][i].v >= MIN_INTERVAL

(***************************************************************************)
(* C7  A syntactically valid reply whose trim is outside the candidate set *)
(* or whose confidence is below min_ai_confidence makes llm_assign return  *)
(* unmatched with confidence 0 after that attempt: no backoff sleep and no *)
(* further request follow the attempt's request.                           *)
(***************************************************************************)
\* the reply text holds a JSON object with the answer
SyntacticallyValid(r) ==
    /\ r.net = "ok" /\ r.status = 200 /\ r.env = "content"
    /\ r.text.form \in {"bare", "fenced", "prose"}
    /\ r.text.val.type = "object"

Rejected(r, cs) ==
    \/ Norm(r.text.val.trim) \notin CandNorms(cs)
    \/ ~r.text.val.conf.num
    \/ (~r.text.val.conf.nan /\ r.text.val.conf.v < min_ai_confidence)

C7_RejectionNotRetried ==
    \A p \in Callers :
       (LlmReturned(p) /\ SyntacticallyValid(resp[p]) /\ Rejected(resp[p], cands[p]))
       => /\ ai_guess[p] = LlmUnmatched
          /\ LastEv(p).e = "req"
          /\ LastEv(p).k = attempt[p]
          /\ Len(SelectSeq(RetryTrace(p), IsReqEv)) = attempt[p]

\* the second attempt's answer names a trim that is no candidate, with
\* confidence 1.5: the call has ended with that request
C7_Witness ==
    \E p \in Callers :
       /\ LlmReturned(p)
       /\ attempt[p] = 2
       /\ resp[p].text.val = JObj(<<"U">>, NumConf(150))
       /\ ai_guess[p] = LlmUnmatched
       /\ LastEv(p).e = "req"

(***************************************************************************)
(* C8  An error of an attempt outside timeout, connection failure, 5xx and *)
(* unparseable or invalid body (an HTTP client-error status, an unexpected *)
(* exception) makes llm_assign return unmatched right after that attempt,  *)
(* with no retry and no backoff sleep.                                     *)
(***************************************************************************)
OtherError(r) ==
    \/ r.net = "other"
    \/ r.net = "ok" /\ r.status >= 400 /\ r.status < 500

C8_OtherErrorsNotRetried ==
    \A p \in Callers :
       (pc[p] \in {"backoff", "mt_llm", "done"} /\ OtherError(resp[p]))
       => /\ LlmReturned(p)
          /\ ai_guess[p] = LlmUnmatched
          /\ LastEv(p).e = "req"
          /\ LastEv(p).k = attempt[p]

(***************************************************************************)
(* C9  A reply whose body is unparseable or schema-invalid (no recoverable *)
(* JSON object, a non-object JSON value, an envelope without the           *)
(* choices/message/content structure) is followed by a backoff sleep and,  *)
(* up to MAX_RETRIES attempts, a retry.                                    *)
(***************************************************************************)
InvalidBody(r) ==
    /\ r.net = "ok" /\ r.status = 200
    /\ \/ r.env \in {"notjson", "nondict", "nochoices", "emptychoices"}
       \/ r.env = "content" /\ ~SyntacticallyValid(r)

C9_InvalidBodyRetried ==
    \A p \in Callers :
       (pc[p] \in {"backoff", "mt_llm", "done"} /\ InvalidBody(resp[p]))
       => /\ RetryTrace(p)[Len(RetryTrace(p))].e = "backoff"
          /\ RetryTrace(p)[Len(RetryTrace(p))].k = attempt[p]

(***************************************************************************)
(* C10  match_trim never raises: whatever the classifier stage does        *)
(* (retries exhausted, rejection, an error that is not retried, an         *)
(* exception leaving llm_assign), fuzzy Tier 1 and, unless it accepts,     *)
(* Tier 2 are evaluated and match_trim returns a result, unmatched when    *)
(* nothing accepts.                                                        *)
(***************************************************************************)
C10_NeverRaises ==
    \A p \in Callers :
       entry[p] = "match_trim" =>
          /\ pc[p] # "raised"
          /\ (pc[p] \in {"fuzzy1", "fuzzy2", "done"} /\ HasEv(p, "stage", "llm")
                /\ ~HasEv(p, "accept", "llm")) =>
                /\ pc[p] = "fuzzy1" \/ HasEv(p, "stage", "fuzzy1")
                /\ pc[p] = "done" =>
                      /\ HasEv(p, "accept", "fuzzy1") \/ HasEv(p, "stage", "fuzzy2")
                      /\ result[p].method \in {M_FUZZY, M_UNMATCHED}
                      /\ LastEv(p).e # "accept" => result[p] = Unmatched

\* an exception left llm_assign, both fuzzy tiers were evaluated, and
\* match_trim returned unmatched
C10_Witness ==
    \E p \in Callers :
       /\ MtDone(p)
       /\ HasEv(p, "raise", "llm")
       /\ StagesOf(p) = <<"exact", "llm", "fuzzy1", "fuzzy2">>
       /\ result[p] = Unmatched

(***************************************************************************)
(* C11  A candidate set that is empty or holds only empty strings makes    *)
(* match_trim return trim empty, confidence 0, method unmatched, for every *)
(* listing and configuration: no stage is evaluated, no request is issued, *)
(* no sleep is made and _last_ts keeps its value.                          *)
(***************************************************************************)
NoCandidate(cs) == \A i \in 1..Len(cs) : ~Truthy(cs[i])

C11_EmptyCandidatesUnmatched ==
    \A p \in Callers :
       (entry[p] = "match_trim" /\ pc[p] \notin {"off", "start"}
          /\ NoCandidate(cands[p]))
       => /\ pc[p] = "done"
          /\ result[p] = Unmatched
          /\ ~Truthy(result[p].trim)
          /\ events[p] = <<>>
          /\ scored[p] = <<>>
          /\ last_ts = 0
          /\ now = StartTime

\* the one candidate is the empty string, the classifier is enabled and has
\* its key, the listing has a raw trim
C11_Witness ==
    \E p \in Callers :
       /\ MtDone(p)
       /\ cands[p] = << <<>> >>
       /\ allow[p] /\ api_key
       /\ listing[p].trim = <<"s","e">>
       /\ result[p] = Unmatched

(***************************************************************************)
(* C12  A classifier answer is accepted only if its confidence, clipped to *)
(* [0,1], is at least min_ai_confidence; match_trim returns an accepted    *)
(* answer with method LLM and exactly that clipped confidence.             *)
(***************************************************************************)
C12_AcceptedAtThreshold ==
    \A p \in Callers :
       /\ (LlmReturned(p) /\ SyntacticallyValid(resp[p])
             /\ Clip01(resp[p].text.val.conf) < min_ai_confidence)
          => /\ ai_guess[p] = LlmUnmatched
             /\ ~HasEv(p, "accept", "llm")
       /\ (LlmReturned(p) /\ ai_guess[p].method = M_LLM)
          => /\ SyntacticallyValid(resp[p])
             /\ ai_guess[p].confidence = Clip01(resp[p].text.val.conf)
             /\ ai_guess[p].confidence >= min_ai_confidence
       /\ (MtDone(p) /\ (HasEv(p, "accept", "llm") \/ result[p].method = M_LLM))
          => /\ SyntacticallyValid(resp[p])
             /\ Clip01(resp[p].text.val.conf) >= min_ai_confidence
             /\ result[p].confidence = Clip01(resp[p].text.val.conf)
             /\ result[p].method = M_LLM

\* an answer with confidence exactly min_ai_confidence was accepted and
\* returned with that confidence
C12_Witness ==
    \E p \in Callers :
       /\ MtDone(p)
       /\ resp[p].text.val.conf = NumConf(min_ai_confidence)
       /\ result[p] = Result(<<"S","E">>, min_ai_confidence, M_LLM)

(***************************************************************************)
(* C13  Without an API credential llm_assign issues no request, makes no   *)
(* sleep and leaves _last_ts unchanged; match_trim goes on with fuzzy      *)
(* Tier 1 and returns what it returns with allow_external_llm false for    *)
(* the same listing, candidates and scores.                                *)
(***************************************************************************)
\* the table a scorer gave caller p in a tier (zeros when it was not called)
TableOf(p, tier, name) ==
    LET IsIt(i) == scored[p][i].tier = tier /\ scored[p][i].scorer = name
        n == Len(NormalizedCandidates(CandList(cands[p])))
    IN IF \E i \in 1..Len(scored[p]) : IsIt(i)
       THEN scored[p][CHOOSE i \in 1..Len(scored[p]) :
                         IsIt(i) /\ \A j \in 1..(i - 1) : ~IsIt(j)].table
       ELSE [i \in 1..n |-> 0]

\* what exact, Tier 1 and Tier 2 alone give for caller p's listing,
\* candidates and scores
WithoutClassifier(p) ==
    LET cl == CandList(cands[p])
        nc == NormalizedCandidates(cl)
        raw == Norm(listing[p].trim)
        ex == ExactStage(raw, cl)
        t1 == FuzzyTier1(raw, TableOf(p, 1, "token_set_ratio"), nc, cl)
    IN IF cl = <<>> THEN Unmatched
       ELSE IF ex.method # M_UNMATCHED THEN ex
       ELSE IF t1.method # M_UNMATCHED THEN t1
       ELSE FuzzyTier2(Combined(listing[p]), DescNorm(listing[p]),
                       TableOf(p, 2, "token_set_ratio"),
                       TableOf(p, 2, "partial_ratio"), nc, cl)

NoClassifierTraffic(p) ==
    /\ \A i \in 1..Len(events[p]) :
          events[p][i].e \notin {"rate", "pass", "req", "backoff"}
    /\ pc[p] \notin {"rl_now", "rl_read", "rl_sleep", "rl_clock", "rl_store",
                     "post", "await", "backoff"}
    /\ attempt[p] = 0

C13_NoCredentialSkipsStage ==
    \A p \in Callers :
       (entry[p] = "match_trim" /\ ~api_key) =>
          /\ NoClassifierTraffic(p)
          /\ last_ts = 0
          /\ now = StartTime
          /\ pc[p] = "mt_llm" => ai_guess[p] = LlmUnmatched
          /\ ~HasEv(p, "accept", "llm")
          /\ (pc[p] \in {"fuzzy2", "done"} /\ HasEv(p, "stage", "llm")) =>
                HasEv(p, "stage", "fuzzy1")
          /\ MtDone(p) => result[p] = WithoutClassifier(p)

\* the classifier was enabled without a key; llm_assign returned its
\* unmatched dictionary and Tier 2 accepted
C13_Witness ==
    \E p \in Callers :
       /\ MtDone(p)
       /\ allow[p] /\ ~api_key
       /\ ~HasEv(p, "raise", "llm")
       /\ StagesOf(p) = <<"exact", "llm", "fuzzy1", "fuzzy2">>
       /\ result[p].method = M_FUZZY
       /\ Len(scored[p]) = 3

(***************************************************************************)
(* C14  Every classifier request, of every attempt of every caller, is     *)
(* issued right after that attempt has passed through _rate_limit: the     *)
(* request of attempt k follows the gate pass of attempt k, and a caller   *)
(* about to send has just passed the gate.                                 *)
(***************************************************************************)
C14_RequestAfterGate ==
    \A p \in Callers :
       /\ \A i \in 1..Len(events[p]) :
             events[p][i].e = "req" =>
                /\ i > 1
                /\ events[p][i - 1].e = "pass"
                /\ events[p][i - 1].k = events[p][i].k
                /\ events[p][i - 1].v <= events[p][i].v
       /\ pc[p] = "post" =>
             /\ LastEv(p).e = "pass"
             /\ LastEv(p).k = attempt[p]

\* the second attempt's request has been sent, after its own gate pass and
\* a sleep in the gate
C14_Witness ==
    \E p \in Callers :
       /\ pc[p] = "await"
       /\ attempt[p] = 2
       /\ LastEv(p).e = "req" /\ LastEv(p).k = 2
       /\ events[p][Len(events[p]) - 1].e = "pass"
       /\ events[p][Len(events[p]) - 2].e = "rate"

(***************************************************************************)
(* C15  Fuzzy Tier 1 accepts the best token-set score of the normalized    *)
(* raw trim exactly when it is >= fuzzy_primary_threshold: a score at the  *)
(* threshold is accepted with confidence score/100 and method fuzzy, a     *)
(* score one point below is not accepted and Tier 2 is evaluated.          *)
(***************************************************************************)
\* the highest score of a table
MaxScore(t) == CHOOSE m \in {t[i] : i \in 1..Len(t)} : \A j \in 1..Len(t) : t[j] <= m

\* Tier 1 has scored the raw trim of caller p against some candidate
Tier1Scored(p) ==
    /\ scored[p] # <<>>
    /\ scored[p][1].tier = 1
    /\ scored[p][1].table # <<>>

C15_Tier1Threshold ==
    \A p \in Callers :
       (entry[p] = "match_trim" /\ Tier1Scored(p)) =>
          LET t == scored[p][1].table
              best == MaxScore(t)
              nc == NormalizedCandidates(CandList(cands[p]))
          IN /\ scored[p][1].scorer = "token_set_ratio"
             /\ scored[p][1].query = Norm(listing[p].trim)
             /\ HasEv(p, "accept", "fuzzy1") <=> best >= fuzzy_primary_threshold
             /\ best >= fuzzy_primary_threshold =>
                   /\ pc[p] = "done"
                   /\ result[p].method = M_FUZZY
                   /\ result[p].confidence = best
                   /\ IsMember(result[p].trim, cands[p])
                   /\ \E i \in 1..Len(t) :
                         t[i] = best /\ Norm(result[p].trim) = nc[i]
                   /\ ~HasEv(p, "stage", "fuzzy2")
             /\ best < fuzzy_primary_threshold =>
                   pc[p] = "fuzzy2" \/ HasEv(p, "stage", "fuzzy2")

\* the best score is exactly the threshold, the other candidate is one point
\* below: Tier 1 accepted the best one with confidence 0.82
C15_Witness ==
    \E p \in Callers :
       /\ MtDone(p)
       /\ Tier1Scored(p)
       /\ scored[p][1].table = <<fuzzy_primary_threshold - 1, fuzzy_primary_threshold>>
       /\ result[p] = Result(<<"L","E">>, fuzzy_primary_threshold, M_FUZZY)
       /\ LastEv(p) = Ev("accept", 0, 0, "fuzzy1")

(***************************************************************************)
(* C16  When Tier 1 has not accepted and the combined query (normalized    *)
(* raw trim, then normalized title) is not empty, Tier 2 scores it against *)
(* every normalized candidate with token_set_ratio and with partial_ratio, *)
(* takes the highest score of both tables, and accepts exactly when it is  *)
(* >= fuzzy_secondary_threshold, returning a candidate with that score in  *)
(* its original form, confidence score/100 and method fuzzy.               *)
(***************************************************************************)
Greater(a, b) == IF a >= b THEN a ELSE b

\* the calls Tier 2 has made for caller p
IsTier2Call(c) == c.tier = 2

Tier2Scored(p) == SelectSeq(scored[p], IsTier2Call)

C16_Tier2BestOfBoth ==
    \A p \in Callers :
       (MtDone(p) /\ HasEv(p, "stage", "fuzzy2") /\ Combined(listing[p]) # <<>>) =>
          LET nc == NormalizedCandidates(CandList(cands[p]))
              calls == Tier2Scored(p)
          IN /\ Len(calls) >= 2
             /\ calls[1].scorer = "token_set_ratio"
             /\ calls[2].scorer = "partial_ratio"
             /\ calls[1].query = Combined(listing[p])
             /\ calls[2].query = Combined(listing[p])
             /\ Len(calls[1].table) = Len(nc)
             /\ Len(calls[2].table) = Len(nc)
             /\ nc = <<>> => result[p] = Unmatched
             /\ nc # <<>> =>
                  LET sa == calls[1].table
                      sb == calls[2].table
                      best == Greater(MaxScore(sa), MaxScore(sb))
                  IN /\ Len(calls) = 2
                     /\ HasEv(p, "accept", "fuzzy2")
                           <=> best >= fuzzy_secondary_threshold
                     /\ best >= fuzzy_secondary_threshold =>
                           /\ result[p].method = M_FUZZY
                           /\ result[p].confidence = best
                           /\ IsMember(result[p].trim, cands[p])
                           /\ \E i \in 1..Len(nc) :
                                 /\ nc[i] = Norm(result[p].trim)
                                 /\ sa[i] = best \/ sb[i] = best
                     /\ best < fuzzy_secondary_threshold => result[p] = Unmatched

\* Tier 1 scored below its threshold, token_set_ratio gave the combined
\* query 0.73 at best and partial_ratio 0.74: Tier 2 accepted at 0.74
C16_Witness ==
    \E p \in Callers :
       /\ MtDone(p)
       /\ Tier1Scored(p)
       /\ listing[p].title = <<"T">>
       /\ Len(Tier2Scored(p)) = 2
       /\ Tier2Scored(p)[1].table = <<73, 73>>
       /\ Tier2Scored(p)[2].table = <<73, fuzzy_secondary_threshold>>
       /\ result[p] = Result(<<"L","E">>, fuzzy_secondary_threshold, M_FUZZY)

FirstWith(m, sa, sb) ==
    CHOOSE i \in 1..Len(sa) :
       /\ sa[i] = m \/ sb[i] = m
       /\ \A j \in 1..(i - 1) : sa[j] # m /\ sb[j] # m

C18_TieFirstCandidate ==
    \A p \in Callers :
       LET cl == CandList(cands[p])
           nc == NormalizedCandidates(cl)
       IN /\ (MtDone(p) /\ HasEv(p, "accept", "fuzzy1")) =>
                LET t == scored[p][1].table
                IN result[p].trim = NormToOriginal(cl, nc[FirstWith(MaxScore(t), t, t)])
          /\ (MtDone(p) /\ HasEv(p, "accept", "fuzzy2") /\ Len(Tier2Scored(p)) = 2) =>
                LET sa == Tier2Scored(p)[1].table
                    sb == Tier2Scored(p)[2].table
                    best == Greater(MaxScore(sa), MaxScore(sb))
                IN result[p].trim = NormToOriginal(cl, nc[FirstWith(best, sa, sb)])

(***************************************************************************)
(* C19  With allow_external_llm false match_trim issues no classifier      *)
(* request, makes no sleep and leaves _last_ts unchanged, for every        *)
(* listing and candidate set.                                              *)
(***************************************************************************)
C19_DisabledNoClassifier ==
    \A p \in Callers :
       (entry[p] = "match_trim" /\ ~allow[p]) =>
          /\ NoClassifierTraffic(p)
          /\ ~HasEv(p, "stage", "llm")
          /\ pc[p] \notin {"llm_start", "mt_llm", "raised"}
          /\ wake[p] = 0
          /\ last_ts = 0
          /\ now = StartTime

\* the key is set but the classifier is disabled: exact did not match and
\* Tier 1 accepted
C19_Witness ==
    \E p \in Callers :
       /\ MtDone(p)
       /\ ~allow[p] /\ api_key
       /\ StagesOf(p) = <<"exact", "fuzzy1">>
       /\ result[p].method = M_FUZZY

(***************************************************************************)
(* C20  _canonical_method maps every label, empty and missing ones         *)
(* included, into {exact, manual, LLM, fuzzy, unmatched}, with the rules   *)
(* in this precedence: the label is exact -> exact; it contains manual ->  *)
(* manual; it contains llm or ai -> LLM; it contains fuzzy, rule,          *)
(* heuristic, mapping or closest -> fuzzy.                                 *)
(***************************************************************************)
\* the label as the rules see it, and whether it contains a word
Seen(label) == Lower(Strip(label))

Has(word, label) == Contains(word, Seen(label))

IsExact(label) == Seen(label) = <<"e","x","a","c","t">>

HasManual(label) == Has(<<"m","a","n","u","a","l">>, label)

HasLlm(label) == Has(<<"l","l","m">>, label) \/ Has(<<"a","i">>, label)

HasFuzzy(label) ==
    \/ Has(<<"f","u","z","z","y">>, label)
    \/ Has(<<"r","u","l","e">>, label)
    \/ Has(<<"h","e","u","r","i","s","t","i","c">>, label)
    \/ Has(<<"m","a","p","p","i","n","g">>, label)
    \/ Has(<<"c","l","o","s","e","s","t">>, label)

C20_CanonicalMethodRules ==
    ret # None =>
       /\ ret \in Methods
       /\ Truthy(arg) =>
             /\ IsExact(arg) => ret = M_EXACT
             /\ (~IsExact(arg) /\ HasManual(arg)) => ret = M_MANUAL
             /\ (~IsExact(arg) /\ ~HasManual(arg) /\ HasLlm(arg)) => ret = M_LLM
             /\ (~IsExact(arg) /\ ~HasManual(arg) /\ ~HasLlm(arg) /\ HasFuzzy(arg))
                   => ret = M_FUZZY

\* a label with manual and llm in it was mapped to manual
C20_Witness ==
    /\ arg = <<"l","l","m","-","m","a","n","u","a","l">>
    /\ ret = M_MANUAL

(***************************************************************************)
(* C21  A label that is not exact and contains none of manual, llm, ai,    *)
(* fuzzy, rule, heuristic, mapping, closest is mapped by _canonical_method *)
(* to unmatched.                                                           *)
(***************************************************************************)
C21_UnknownLabelUnmatched ==
    (ret # None /\ Truthy(arg) /\ ~IsExact(arg) /\ ~HasManual(arg)
       /\ ~HasLlm(arg) /\ ~HasFuzzy(arg))
    => ret = M_UNMATCHED

(***************************************************************************)
(* What the tables say                                                     *)
(***************************************************************************)
\* the committed history rows of a listing, in order
HistoryOf(ad) == SelectSeq(trim_history, LAMBDA h : h.listing_id = ad)

ChangedBy(who) == \E i \in DOMAIN trim_history : trim_history[i].changed_by = who

\* C22: in every committed state each listing has exactly as many history
\* rows as its normalized_trim was assigned: update_listing_with_match,
\* reprocess_listing, reprocess_processed and assign_trim_manual commit the
\* row and its one history row together, never one without the other
C22_HistoryWithUpdate ==
    \A ad \in AdIds : Len(HistoryOf(ad)) = listings[ad].writes

\* the three kinds of writer have committed a change of the first listing
C22_Witness ==
    /\ ChangedBy("system_match")
    /\ ChangedBy("manual")
    /\ ChangedBy("system_bulk_reprocess")
    /\ listings[1].writes = MaxHistory

\* C23: every history row of a listing records the persisted normalized_trim
\* before and after its update: the first row's old_trim is the NULL the
\* listing started with, each later row's old_trim is the row before's
\* new_trim, and the last row's new_trim is the listing's normalized_trim
C23_HistoryChained ==
    \A ad \in AdIds :
       LET h == HistoryOf(ad)
       IN Len(h) > 0 =>
            /\ h[1].old_trim = None
            /\ \A i \in 1..(Len(h) - 1) : h[i + 1].old_trim = h[i].new_trim
            /\ h[Len(h)].new_trim = listings[ad].normalized_trim

\* C24: when reprocess_processed fails or is cancelled at its k-th listing,
\* every listing it resolved before is persisted with its history row
C24_ResolvedSurviveFailure ==
    reply.status = "failed" =>
       \A i \in DOMAIN reply.done :
          \E j \in (reply.h0 + 1)..Len(trim_history) :
             /\ trim_history[j].listing_id = reply.done[i]
             /\ trim_history[j].changed_by = "system_bulk_reprocess"

\* C25: the list get_candidate_trims returns holds no two entries with the
\* same normalized key
C25_NoTwoNormalizeAlike ==
    \A i, j \in DOMAIN ret : i # j => Norm(ret[i]) # Norm(ret[j])

(***************************************************************************)
(* How long a call takes                                                   *)
(***************************************************************************)
\* the call of p has returned and no later call has begun: now is the
\* time it returned
Finished(p) ==
    pc[p] = "done" /\ \A q \in Callers : q > p => pc[q] = "queued"

\* the time from the call of llm_assign to its return
Latency(p) == now - events[p][1].v

LatencyBound ==
    REQUEST_TIMEOUT * MAX_RETRIES + BACKOFF_BASE * (2 ^ MAX_RETRIES - 1)

RECURSIVE RateWaits(_)
\* the time the events say was slept in _rate_limit
RateWaits(evs) ==
    IF evs = <<>> THEN 0
    ELSE (IF Head(evs).e = "rate" THEN Head(evs).v ELSE 0) + RateWaits(Tail(evs))

\* C26 as stated: a call of llm_assign returns within
\* REQUEST_TIMEOUT * MAX_RETRIES + BACKOFF_BASE * (2^MAX_RETRIES - 1)
C26_LatencyBounded ==
    \A p \in Callers : Finished(p) => Latency(p) <= LatencyBound

\* C26: a call of llm_assign returns within that bound plus the time it slept
\* in _rate_limit, and no sleep of _rate_limit is longer than the minimum
\* interval
C26_LatencyBoundedPlusGate ==
    \A p \in Callers :
       /\ \A i \in DOMAIN events[p] :
             events[p][i].e = "rate" => events[p][i].v <= MIN_INTERVAL
       /\ Finished(p) => Latency(p) <= LatencyBound + RateWaits(events[p])

\* a call that waited in _rate_limit and whose every request timed out took
\* longer than the bound
C26_Witness ==
    \E p \in Callers :
       /\ Finished(p)
       /\ RateWaits(events[p]) > 0
       /\ Latency(p) > LatencyBound

(***************************************************************************)
(* Normalization                                                           *)
(***************************************************************************)
\* C27: _norm applied to what _norm returned returns it again, for a string
\* and for None, and the copy of _norm in llm_classification returns the
\* same key as the one in matching, for the input and for the key
C27_NormIdempotent ==
    ret # None =>
       /\ Norm(ret) = ret
       /\ LlmNorm(arg) = ret
       /\ LlmNorm(ret) = ret

\* a string that _norm changed in case, punctuation and length
C27_Witness ==
    /\ ret # None
    /\ arg = <<" ", "S", "-">>
    /\ ret = <<"s">>

IsLetterOrDigit(c) == IsAlnum(LowerChar(c))

\* the letters and digits of a string, in order and in lower case: what is
\* left when case, punctuation and spacing are disregarded
Skeleton(s) == Lower(SelectSeq(s, IsLetterOrDigit))

RECURSIVE Scan(_, _, _)
Scan(s, word, words) ==
    LET closed == IF word = <<>> THEN words ELSE Append(words, word)
    IN IF s = <<>> THEN closed
       ELSE IF IsLetterOrDigit(Head(s))
       THEN Scan(Tail(s), Append(word, LowerChar(Head(s))), words)
       ELSE Scan(Tail(s), <<>>, closed)

\* the words of a string: its maximal runs of letters and digits, in lower
\* case
Words(s) == Scan(s, <<>>, <<>>)

\* C28 as stated: two strings with the same letters and digits in the same
\* order, whatever their case, punctuation and spacing, have the same key
C28_SameSkeletonSameKey ==
    ret # None /\ arg # None =>
       \A y \in RawStrings : Skeleton(y) = Skeleton(arg) => Norm(y) = ret

\* C28: two strings with the same words, whatever their case and whatever
\* punctuation and spacing separates and surrounds the words, have the same
\* key
C28_SameWordsSameKey ==
    ret # None /\ arg # None =>
       \A y \in RawStrings : Words(y) = Words(arg) => Norm(y) = ret

\* two words separated by a hyphen have the key of the two words separated
\* by a space with the letter in the other case
C28_Witness ==
    /\ ret # None
    /\ arg = <<"S", "-", "1">>
    /\ <<"s", " ", "1">> \in RawStrings
    /\ Words(<<"s", " ", "1">>) = Words(arg)
    /\ Norm(<<"s", " ", "1">>) = ret
    /\ ret = <<"s", " ", "1">>

(***************************************************************************)
(* Clipping                                                                *)
(***************************************************************************)
\* C29: _clip01 returns 0 for a confidence below 0, 1 for one above 1, the
\* confidence itself within [0,1], and 0 for a value that is not a number
C29_Clipped ==
    ret # <<>> =>
       ret[1] = IF ~arg.num \/ arg.nan THEN 0
                ELSE IF arg.v < 0 THEN 0
                ELSE IF arg.v > 100 THEN 100
                ELSE arg.v

(***************************************************************************)
(* The order of the docstring                                              *)
(***************************************************************************)
\* stage st is among the first n stages caller p evaluated
StageBefore(p, st, n) == \E j \in 1..n : StagesOf(p)[j] = st

Last(op) == reply.op = op /\ job.op = "idle"

\* the history row that was committed last
LastHistory == trim_history[Len(trim_history)]

\* C31: update_listing_with_match on an existing listing commits, and the
\* normalized_trim it stores and the new_trim of the history row it writes
\* are a non-empty string, whatever trim (None included) it was passed
C31_UpdateNeverNull ==
    Last("update_listing_with_match") =>
       \/ reply.status = "None"
       \/ /\ reply.status = "ok"
          /\ LastHistory.changed_by = "system_match"
          /\ Truthy(LastHistory.new_trim)
          /\ listings[LastHistory.listing_id].normalized_trim
                = LastHistory.new_trim

\* a listing without a trim was updated with an unmatched result: both
\* values are the string unmatched
C31_Witness ==
    /\ Last("update_listing_with_match")
    /\ reply.status = "ok"
    /\ listings[LastHistory.listing_id].trim = None
    /\ listings[LastHistory.listing_id].assignment_method = M_UNMATCHED
    /\ LastHistory.new_trim = M_UNMATCHED

\* C32: process_listings ends with status ok and every listing it fetched
\* (every listing that was unprocessed or needed review) has processed_at
\* set afterwards
C32_ProcessResolvesAll ==
    Last("process_listings") =>
       /\ reply.status = "ok"
       /\ \A ad \in AdIds : listings[ad].processed_at

\* C33: reprocess_listing ends in an error only for a listing that does not
\* exist; for an existing listing it commits the resolution and one history
\* row, whatever the match result
C33_ReprocessAlwaysCommits ==
    Last("reprocess_listing") =>
       \/ reply.status = "404"
       \/ /\ reply.status = "ok"
          /\ LastHistory.changed_by = "system_reprocess"
          /\ listings[LastHistory.listing_id].normalized_trim
                = LastHistory.new_trim

(***************************************************************************)
(* How many requests a call makes                                          *)
(***************************************************************************)
\* the requests caller p has issued
Requests(p) == SelectSeq(events[p], IsReqEv)

\* C34: a call of llm_assign issues at most MAX_RETRIES requests, numbered
\* in order, and a request is followed by another one only through the
\* backoff sleep of a retried failure: once an attempt has ended otherwise
\* the call has returned with that request as its last
C34_RequestsBounded ==
    \A p \in Callers :
       LET tr == RetryTrace(p) IN
          /\ Len(Requests(p)) <= MAX_RETRIES
          /\ attempt[p] <= MAX_RETRIES
          /\ \A i \in 1..Len(Requests(p)) : Requests(p)[i].k = i
          /\ \A i \in 1..(Len(tr) - 1) :
                tr[i].e = "req" =>
                   tr[i + 1].e = "backoff" /\ tr[i + 1].k = tr[i].k
          /\ (resp[p] # NoResp /\ pc[p] # "await"
                /\ ~Retried(AttemptException(resp[p]))) =>
                /\ pc[p] \notin {"backoff", "rl_now", "rl_read", "rl_sleep",
                                 "rl_clock", "rl_store", "post"}
                /\ tr[Len(tr)].e = "req"
                /\ tr[Len(tr)].k = attempt[p]

\* the first request ended in a retried failure, the second ended in an
\* exception that is not retried, and the call returned after two requests
C34_Witness ==
    \E p \in Callers :
       /\ LlmReturned(p)
       /\ Len(Requests(p)) = 2
       /\ attempt[p] = 2
       /\ resp[p].net = "other"
       /\ ai_guess[p] = LlmUnmatched

\* C35: no step of reprocess_processed changes the normalized_trim, the
\* confidence or the assignment_method of a listing whose assignment_method
\* is manual
C35_ManualKept ==
    [][ job.op = "reprocess_processed" =>
          \A ad \in AdIds :
             listings[ad].assignment_method = M_MANUAL =>
                /\ listings'[ad].normalized_trim = listings[ad].normalized_trim
                /\ listings'[ad].trim_confidence = listings[ad].trim_confidence
                /\ listings'[ad].assignment_method = M_MANUAL ]_vars

\* the last committed change of listing ad was made by who
LatestBy(ad, who) ==
    LET h == HistoryOf(ad) IN Len(h) > 0 /\ h[Len(h)].changed_by \in who

Automated == {"system_match", "system_reprocess", "system_bulk_reprocess"}

\* C36: a listing whose last committed change is an automated resolution
\* has processed_at set and needs_review true exactly when its
\* assignment_method is unmatched, and get_unprocessed_listings selects it
\* exactly when needs_review is true
C36_ReviewIffUnmatched ==
    \A ad \in AdIds :
       LatestBy(ad, Automated) =>
          /\ listings[ad].processed_at
          /\ listings[ad].needs_review
                <=> (listings[ad].assignment_method = M_UNMATCHED)
          /\ (ad \in Unprocessed) <=> listings[ad].needs_review

\* a bulk reprocess left one listing unmatched, which is selected again, and
\* an update left another matched, which is not
C36_Witness ==
    \E a, b \in AdIds :
       /\ LatestBy(a, {"system_bulk_reprocess"})
       /\ listings[a].assignment_method = M_UNMATCHED
       /\ a \in Unprocessed
       /\ LatestBy(b, {"system_match"})
       /\ listings[b].assignment_method = M_EXACT
       /\ b \notin Unprocessed

\* the events of callers 1..n, one caller after the other
RECURSIVE Joined(_)
Joined(n) == IF n = 0 THEN <<>> ELSE Joined(n - 1) \o events[n]

IsGatePass(e) == e.e = "pass"

\* successive events of evs are at least MIN_INTERVAL apart
Spaced(evs) ==
    \A i \in 1..(Len(evs) - 1) : evs[i + 1].v - evs[i].v >= MIN_INTERVAL

\* C37: when llm_assign is called by one caller at a time, any two
\* successive passes through _rate_limit, and any two successive requests,
\* across attempts and across calls, are at least MIN_INTERVAL apart
C37_SequentialSpacing ==
    /\ Spaced(SelectSeq(Joined(NumCallers), IsGatePass))
    /\ Spaced(SelectSeq(Joined(NumCallers), IsReqEv))

\* a call has retried after a failure that took no time, the call after it
\* has passed the gate too, and both had to wait at the gate
C37_Witness ==
    \E p, q \in Callers :
       /\ p < q
       /\ Len(SelectSeq(events[p], IsGatePass)) >= 2
       /\ Len(SelectSeq(events[q], IsReqEv)) >= 1
       /\ RateWaits(events[p]) > 0
       /\ RateWaits(events[q]) > 0

\* C38: no step of any caller, in any interleaving, lowers _last_ts
C38_LastTsNeverDecreases == [][last_ts' >= last_ts]_vars

====
